---- MODULE Spec2Model ----
(***************************************************************************)
(* A model of the IcyPaw runtime (src/icypaw): the client endpoint        *)
(* liveness record, the client's message handling, the server engine      *)
(* with its wire interface, the metric organizer, and the command queue   *)
(* of an endpoint.  Each part has its own specifications over its own     *)
(* variables; the variables of the other parts stay at their initial      *)
(* values.                                                                 *)
(***************************************************************************)
EXTENDS Integers, Sequences, FiniteSets, TLC

VARIABLES
    \* ---- ClientEndpoint / IcypawClient endpoint table (client_endpoint.py, client.py)
    last_birth_seq,   \* ClientEndpoint._last_birth_seq
    last_death_seq,   \* ClientEndpoint._last_death_seq
    in_table,         \* the endpoint name is a key of InternalClientData.endpoints
    lifetime,         \* history: the run of births and deaths received so far
    \* ---- IcypawClient message handling (client.py)
    seen_messages,      \* IcypawClient._seen_messages: topic -> last fingerprint
    endpoints,          \* keys of InternalClientData.endpoints
    endpoint_metrics,   \* per endpoint name: ClientEndpoint.metrics and ._alias_map
    user_subscriptions, \* InternalClientData.user_subscriptions, in order of creation
    delivery,           \* history: what the last call of _on_message did
    last_fingerprint,   \* history: topic -> fingerprint of the last fingerprinted delivery
    invoked_once,       \* history: <<callback, topic, fingerprint>> invoked so far
    invoked_twice,      \* history: those invoked more than once
    client_steps,         \* history: number of calls of monitor and _on_message
    set_metric,         \* history: the last call of set_endpoint_metric and what it did
    \* ---- ServerEngine, its node and its wire interface (server_engine.py,
    \*      server_endpoint_base.py, tahu_interface.py)
    connected,          \* ServerEngine.connect has run
    connect_log,        \* history: the transport and hook calls connect made, in order
    last_nbirth,        \* the bdSeq of the retained NBIRTH _get_next_bdseq received (None: timeout)
    will,               \* the last will given to the transport by will_set
    scope_exit,         \* history: how the scope of connect was left and the calls made then
    wait,               \* the call of _wait_on_queue the engine thread is in, or was in last
    now,                \* time.time()
    queue,              \* ServerEngine._queue (inbound, FIFO)
    scheduled_events,   \* ServerEngine._scheduled_events (heapq array)
    next_id,            \* history: number of the next queue item object created
    node,               \* the node endpoint: metric values, _metric_dict, fresh flag
    iface,              \* TahuServerInterface: seq, bdSeq, born flag, organizers
    devices,            \* ServerEngine._devices[device_id] (one device id)
    device_endpoint,    \* the device object held by that entry: metric values, _metric_dict, fresh flag
    command_queue_set,  \* per device object: _command_queue is not None
    step,               \* history: what the last engine step did
    seq_run,            \* history: the seq values of the birth and data messages so far
    \* ---- MetricOrganizer on its own (tahu_interface.py)
    organizer,          \* a MetricOrganizer: _metrics, _uncommitted_metrics, the alias map
    organizer_call,     \* history: the last method called on the organizer and how it ended
    \* ---- the command queue of an endpoint and the threads that use it
    \*      (server_endpoint_base.py)
    registration,       \* _command_queue, its lock and buffer, and where each thread is
    \* ---- the lock of the client's table and the user callbacks (client.py)
    dispatch,           \* the lock, the subscriptions of one event, and where each thread is
    \* ---- TahuClientInterface on its own (tahu_interface.py)
    client_iface        \* _alias_map, and history: the last command payload built

clientEndpointVars == <<last_birth_seq, last_death_seq, in_table, lifetime>>

clientVars == <<seen_messages, endpoints, endpoint_metrics, user_subscriptions, delivery,
                last_fingerprint, invoked_once, invoked_twice, client_steps, set_metric>>

engineVars == <<connected, connect_log, last_nbirth, will, scope_exit, wait, now, queue, scheduled_events, next_id,
                node, iface, devices, device_endpoint, command_queue_set, step, seq_run>>

organizerVars == <<organizer, organizer_call>>

registrationVars == <<registration>>

dispatchVars == <<dispatch>>

clientIfaceVars == <<client_iface>>

vars == <<last_birth_seq, last_death_seq, in_table, lifetime,
          seen_messages, endpoints, endpoint_metrics, user_subscriptions, delivery,
          last_fingerprint, invoked_once, invoked_twice, client_steps, set_metric,
          connected, connect_log, last_nbirth, will, scope_exit, wait, now, queue, scheduled_events,
          next_id, node, iface, devices, device_endpoint, command_queue_set, step, seq_run,
          organizer, organizer_call, registration, dispatch, client_iface>>

(***************************************************************************)
(* Values shared by all parts.                                             *)
(***************************************************************************)

\* Python's None, for fields that hold a number or None.
NoneVal == -1

\* bdSeq and seq are bytes: they wrap at 256.
ByteMod == 256

(***************************************************************************)
(* PART 1.  ClientEndpoint liveness (client_endpoint.py)                   *)
(***************************************************************************)

\* Timestamps (ms since the epoch) a birth or death payload may carry; real
\* ones are far above the bdSeq range.
TimeStampBase == 1000
MaxTimeStamps == 2
TimeStamps == TimeStampBase .. (TimeStampBase + MaxTimeStamps - 1)
MaxManualSeq == 2

\* A birth or death payload, as far as the lifetime sequence reads it: the
\* value of its bdSeq metric (or None) and its timestamp field (or None).
LifetimeMessage(bd, ts) == [bdSeq |-> bd, timestamp |-> ts]

\* ClientEndpoint._get_lifetime_sequence
get_lifetime_sequence(message) ==
    IF message.bdSeq # NoneVal THEN message.bdSeq
    ELSE IF message.timestamp # NoneVal THEN message.timestamp
    ELSE NoneVal

\* Python's `x or 0` for x a number or None.
OrZero(x) == IF x = NoneVal THEN 0 ELSE x

\* The wrap clause of is_online dropped.
is_online_nowrap(birth, death) ==
    IF birth # NoneVal
    THEN IF death # NoneVal THEN birth > death ELSE TRUE
    ELSE FALSE

\* ClientEndpoint.is_online, as a function of the two sequence fields.
is_online_of(birth, death) ==
    IF birth # NoneVal
    THEN IF death # NoneVal
         THEN (birth > death) \/ (death = 255 /\ birth < 255)
         ELSE TRUE
    ELSE FALSE

is_online == is_online_of(last_birth_seq, last_death_seq)

\* IcypawClient.get_endpoint_state that looks at the endpoint's is_online
\* only.
get_endpoint_state_without_table ==
    IF is_online THEN "ONLINE" ELSE "OFFLINE"

\* IcypawClient.get_endpoint_state: UNKNOWN for a name that is not in the
\* table, else by the endpoint's is_online.
get_endpoint_state ==
    IF in_table
    THEN IF is_online THEN "ONLINE" ELSE "OFFLINE"
    ELSE "UNKNOWN"

\* The new value of a sequence field on a birth or death message.
NextLifetimeSeq(message, old) ==
    LET seq == get_lifetime_sequence(message)
    IN IF seq # NoneVal THEN seq ELSE OrZero(old) + 1

\* History of the run: it conforms while births and deaths alternate, each
\* death carries the bdSeq of the birth before it and each later birth that
\* bdSeq plus 1 mod 256.  birth_seq and death_seq are the lifetime
\* sequences of the last birth and of the last death received so far (None:
\* none received).
Lifetime(last, conform, bd, birth_seq, death_seq) ==
    [last |-> last, conform |-> conform, bd |-> bd, birth_seq |-> birth_seq,
     death_seq |-> death_seq]

LifetimeAfterBirth(message, seq) ==
    IF /\ lifetime.conform
       /\ message.bdSeq # NoneVal
       /\ \/ lifetime.last = "none"
          \/ /\ lifetime.last = "death"
             /\ message.bdSeq = (lifetime.bd + 1) % ByteMod
    THEN Lifetime("birth", TRUE, message.bdSeq, seq, lifetime.death_seq)
    ELSE Lifetime("birth", FALSE, 0, seq, lifetime.death_seq)

LifetimeAfterDeath(message, seq) ==
    IF /\ lifetime.conform
       /\ lifetime.last = "birth"
       /\ message.bdSeq = lifetime.bd
    THEN Lifetime("death", TRUE, lifetime.bd, lifetime.birth_seq, seq)
    ELSE Lifetime("death", FALSE, 0, lifetime.birth_seq, seq)

\* The bdSeq values the broker delivers next: any byte for the first message,
\* afterwards 0, 255 and the neighbours (mod 256) of the last birth sequence
\* (of the last death sequence while no birth carried a bdSeq).
IsByte(x) == x # NoneVal /\ x < ByteMod

Neighbours(x) ==
    IF IsByte(x) THEN {x, (x + 1) % ByteMod, (x + ByteMod - 1) % ByteMod} ELSE {}

BdSeqInputs ==
    IF last_birth_seq = NoneVal /\ last_death_seq = NoneVal
    THEN 0 .. (ByteMod - 1)
    ELSE {0, 255} \cup (IF IsByte(last_birth_seq) THEN Neighbours(last_birth_seq)
                                                 ELSE Neighbours(last_death_seq))

\* A payload with neither bdSeq nor timestamp makes the endpoint count by
\* hand; the model lets it count up to MaxManualSeq.
LifetimeMessages(old) ==
    {LifetimeMessage(bd, NoneVal) : bd \in BdSeqInputs}
    \cup {LifetimeMessage(NoneVal, ts) : ts \in TimeStamps}
    \cup (IF OrZero(old) < MaxManualSeq THEN {LifetimeMessage(NoneVal, NoneVal)} ELSE {})

\* ClientEndpoint.update_from_tahu_birth on an existing endpoint object (the
\* lifetime part: the last statement of the method).
update_from_tahu_birth ==
    \E message \in LifetimeMessages(last_birth_seq) :
        /\ last_birth_seq' = NextLifetimeSeq(message, last_birth_seq)
        /\ lifetime' = LifetimeAfterBirth(message, NextLifetimeSeq(message, last_birth_seq))
        /\ UNCHANGED <<last_death_seq, in_table>>
        /\ UNCHANGED clientVars
        /\ UNCHANGED engineVars
        /\ UNCHANGED organizerVars
        /\ UNCHANGED registrationVars
    /\ UNCHANGED dispatchVars
    /\ UNCHANGED clientIfaceVars

\* ClientEndpoint.update_from_tahu_death
update_from_tahu_death ==
    \E message \in LifetimeMessages(last_death_seq) :
        /\ last_death_seq' = NextLifetimeSeq(message, last_death_seq)
        /\ lifetime' = LifetimeAfterDeath(message, NextLifetimeSeq(message, last_death_seq))
        /\ UNCHANGED <<last_birth_seq, in_table>>
        /\ UNCHANGED clientVars
        /\ UNCHANGED engineVars
        /\ UNCHANGED organizerVars
        /\ UNCHANGED registrationVars
    /\ UNCHANGED dispatchVars
    /\ UNCHANGED clientIfaceVars

\* IcypawClient._on_birth: the table entry is replaced by a new ClientEndpoint
\* built from the birth, so both sequence fields start from None.
on_birth ==
    \E message \in LifetimeMessages(NoneVal) :
        /\ last_birth_seq' = NextLifetimeSeq(message, NoneVal)
        /\ last_death_seq' = NoneVal
        /\ in_table' = TRUE
        /\ lifetime' = LifetimeAfterBirth(message, NextLifetimeSeq(message, NoneVal))
        /\ UNCHANGED clientVars
        /\ UNCHANGED engineVars
        /\ UNCHANGED organizerVars
        /\ UNCHANGED registrationVars
    /\ UNCHANGED dispatchVars
    /\ UNCHANGED clientIfaceVars

\* IcypawClient._on_death: raises for an endpoint not in the table.
on_death ==
    /\ in_table
    /\ \E message \in LifetimeMessages(last_death_seq) :
        /\ last_death_seq' = NextLifetimeSeq(message, last_death_seq)
        /\ lifetime' = LifetimeAfterDeath(message, NextLifetimeSeq(message, last_death_seq))
        /\ UNCHANGED <<last_birth_seq, in_table>>
        /\ UNCHANGED clientVars
        /\ UNCHANGED engineVars
        /\ UNCHANGED organizerVars
        /\ UNCHANGED registrationVars
    /\ UNCHANGED dispatchVars
    /\ UNCHANGED clientIfaceVars

InitClientEndpoint ==
    /\ last_birth_seq = NoneVal
    /\ last_death_seq = NoneVal
    /\ in_table = FALSE
    /\ lifetime = Lifetime("none", TRUE, 0, NoneVal, NoneVal)

(***************************************************************************)
(* PART 2.  IcypawClient message handling (client.py)                      *)
(***************************************************************************)

\* The device_id of a node name (Python's None) and the wildcard `any`.
NoName == "None"
AnyName == "+"

EndpointName(g, n, d) == [group_id |-> g, edge_node_id |-> n, device_id |-> d]

is_device(name) == name.device_id # NoName

\* The endpoints that publish: one node and one of its devices.
NodeN1 == EndpointName("G", "N1", NoName)
DeviceD1 == EndpointName("G", "N1", "D1")
EndpointNames == {NodeN1, DeviceD1}

\* The patterns the user subscribes with.
EndpointPatterns ==
    {NodeN1, EndpointName("G", AnyName, NoName), EndpointName("G", "N1", AnyName)}

\* ClientEndpointName._match_component
match_component(this_component, other_component) ==
    IF this_component = other_component THEN TRUE
    ELSE IF this_component = NoName \/ other_component = NoName THEN FALSE
    ELSE this_component = AnyName

\* ClientEndpointName.match
match(pattern, other) ==
    /\ match_component(pattern.device_id, other.device_id)
    /\ match_component(pattern.edge_node_id, other.edge_node_id)
    /\ match_component(pattern.group_id, other.group_id)

Events == {"ONLINE", "OFFLINE", "METRIC_UPDATE"}

MessageBases == {"BIRTH", "DEATH", "DATA"}

\* A topic the client receives messages on: parse_topic gives its message
\* type and ClientEndpointName(topic) the endpoint it names.
Topic(base, name) == [base |-> base, endpoint_name |-> name]

message_type(topic) ==
    IF is_device(topic.endpoint_name)
    THEN (CASE topic.base = "BIRTH" -> "DBIRTH"
            [] topic.base = "DEATH" -> "DDEATH"
            [] topic.base = "DATA" -> "DDATA")
    ELSE (CASE topic.base = "BIRTH" -> "NBIRTH"
            [] topic.base = "DEATH" -> "NDEATH"
            [] topic.base = "DATA" -> "NDATA")

Topics == {Topic(base, name) : base \in MessageBases, name \in EndpointNames}

\* The event a message type is routed to the user as.
EventOf(mtype) ==
    IF mtype \in {"NBIRTH", "DBIRTH"} THEN "ONLINE"
    ELSE IF mtype \in {"NDEATH", "DDEATH"} THEN "OFFLINE"
    ELSE "METRIC_UPDATE"

\* A received payload, as far as the handler reads it: whether it is the
\* empty byte string, and its timestamp and seq fields (None when unset).
ClientPayload(e, ts, sq) == [empty |-> e, timestamp |-> ts, seq |-> sq]

PayloadSeqs == {0, 1}

ClientPayloads ==
    {ClientPayload(TRUE, NoneVal, NoneVal)}
    \cup {ClientPayload(FALSE, TimeStampBase, sq) : sq \in PayloadSeqs \cup {NoneVal}}

\* payload.HasField('timestamp') and payload.HasField('seq')
has_fingerprint(payload) ==
    ~payload.empty /\ payload.timestamp # NoneVal /\ payload.seq # NoneVal

fingerprint_of(payload) == <<payload.timestamp, payload.seq>>

\* No fingerprint recorded for a topic yet (dict.get returns None).
NoFingerprint == <<NoneVal, NoneVal>>

\* The comparison with the recorded fingerprint dropped.
is_seen_never(seen, fingerprint) == FALSE

\* self._seen_messages.get(message.topic) == fingerprint
is_seen(seen, fingerprint) == seen = fingerprint

\* Subscription: the callback is None for subscriptions made by watch().
Subscription(event, pattern, callback) ==
    [event |-> event, endpoint_pattern |-> pattern, callback |-> callback]

Callbacks == {"callback", "None"}

\* A call_if that does not look at the endpoint pattern.
call_if_any_endpoint(sub, endpoint_name) == sub.callback # "None"

\* Subscription.call_if: whether the callback is called.
call_if(sub, endpoint_name) ==
    sub.callback # "None" /\ match(sub.endpoint_pattern, endpoint_name)

\* The positions, in order, of the subscriptions of a list whose callback
\* is called for the endpoint.
RECURSIVE CalledFrom(_, _, _)
CalledFrom(subs, endpoint_name, i) ==
    IF i > Len(subs) THEN <<>>
    ELSE (IF call_if(subs[i], endpoint_name) THEN <<i>> ELSE <<>>)
         \o CalledFrom(subs, endpoint_name, i + 1)

\* Steps of the client the model follows.
MaxClientSteps == 4

\* IcypawClient.monitor (and watch, which is monitor with no callback), for
\* one pattern and one of the given sets of events: one Subscription is
\* appended to the list of each event of the set.
monitor(event_sets) ==
    /\ client_steps < MaxClientSteps
    /\ \E events \in event_sets, pattern \in EndpointPatterns, callback \in Callbacks :
        user_subscriptions' =
            [event \in Events |->
                IF event \in events
                THEN Append(user_subscriptions[event],
                            Subscription(event, pattern, callback))
                ELSE user_subscriptions[event]]
    /\ client_steps' = client_steps + 1
    /\ UNCHANGED <<seen_messages, endpoints, endpoint_metrics, delivery, last_fingerprint,
                   invoked_once, invoked_twice, set_metric>>
    /\ UNCHANGED clientEndpointVars
    /\ UNCHANGED engineVars
    /\ UNCHANGED organizerVars
    /\ UNCHANGED registrationVars
    /\ UNCHANGED dispatchVars
    /\ UNCHANGED clientIfaceVars

\* A metric of a received payload, as far as the endpoint reads it: its name
\* and alias fields (unset: NoMetricName, None), its value, and whether
\* converting the value to the metric's type raises (type_from_metric for a
\* datatype without a type, Struct.merge_with_metric for a template value
\* with a member the registered Struct does not have).
TahuMetric(name, alias, value, raises) ==
    [name |-> name, alias |-> alias, value |-> value, raises |-> raises,
     datatype |-> "Int64"]

\* A metric whose datatype is Template: its value is the list of the
\* submetrics of template_value, each a field name and a value.
SubMetric(name, value) == [name |-> name, value |-> value]

TemplateMetric(name, submetrics) ==
    [name |-> name, alias |-> NoneVal, value |-> submetrics, raises |-> FALSE,
     datatype |-> "Template"]

\* The Struct type of the record metric foo: its fields with their defaults.
StructDefault == [x |-> 0, y |-> 0]

\* Struct.merge_with_metric from submetric i on: the value after the loop and
\* whether it raised (KeyError for a submetric that names no field; the
\* fields before it are already merged, in place).
RECURSIVE struct_merge_with_metric(_, _, _)
struct_merge_with_metric(value, submetrics, i) ==
    IF i > Len(submetrics) THEN [value |-> value, raised |-> FALSE]
    ELSE IF submetrics[i].name \notin DOMAIN value THEN [value |-> value, raised |-> TRUE]
    ELSE struct_merge_with_metric([value EXCEPT ![submetrics[i].name] = submetrics[i].value],
                                  submetrics, i + 1)

\* A merge that starts from the defaults of the type.
merge_with_metric_from_default(icpw_value, metric) ==
    IF metric.datatype = "Template"
    THEN struct_merge_with_metric(StructDefault, metric.value, 1)
    ELSE IF metric.raises THEN [value |-> icpw_value, raised |-> TRUE]
    ELSE [value |-> metric.value, raised |-> FALSE]

\* merge_with_metric(icpw_value, metric, icpw_type): a scalar takes the
\* value of the metric, a Struct merges the submetrics into its fields.
merge_with_metric(icpw_value, metric) ==
    IF metric.datatype = "Template"
    THEN struct_merge_with_metric(icpw_value, metric.value, 1)
    ELSE IF metric.raises THEN [value |-> icpw_value, raised |-> TRUE]
    ELSE [value |-> metric.value, raised |-> FALSE]

\* value_from_metric(metric, icpw_type): a new value of the type, merged.
value_from_metric(metric) ==
    merge_with_metric(IF metric.datatype = "Template" THEN StructDefault ELSE 0, metric)

\* metric.HasField('name') is false.
NoMetricName == ""

\* A dict with no key.
EmptyDict == [k \in {} |-> NoneVal]

\* ClientEndpointMetric, as far as the table shows it: value and is_fresh.
ClientEndpointMetric(value, is_fresh) == [value |-> value, is_fresh |-> is_fresh]

\* ClientEndpoint.__init__: the metrics dict and the alias map.
ClientEndpoint(metrics, alias_map) == [metrics |-> metrics, alias_map |-> alias_map]

\* The entry of a name that is not a key of the table.
NoEndpoint == ClientEndpoint(EmptyDict, EmptyDict)

\* d[k] = v on a dict.
DictSet(dict, k, v) ==
    [j \in DOMAIN dict \cup {k} |-> IF j = k THEN v ELSE dict[j]]

\* ClientEndpoint._get_metric_name: the name, or MetricNameError when the
\* method raises (ValueError for a metric with neither name nor alias,
\* KeyError for an alias that is not in the alias map).
MetricNameError == "error"

get_metric_name(alias_map, metric) ==
    IF metric.name # NoMetricName THEN metric.name
    ELSE IF metric.alias = NoneVal THEN MetricNameError
    ELSE IF metric.alias \notin DOMAIN alias_map THEN MetricNameError
    ELSE alias_map[metric.alias]

\* An update that leaves the metric not fresh.
update_from_tahu_not_fresh(metric, tahu_metric) ==
    ClientEndpointMetric(merge_with_metric(metric.value, tahu_metric).value, FALSE)

\* ClientEndpointMetric.update_from_tahu: the value merged with the metric
\* of the message, fresh.
update_from_tahu(metric, tahu_metric) ==
    ClientEndpointMetric(merge_with_metric(metric.value, tahu_metric).value, TRUE)

\* ClientEndpoint.update_from_tahu_data from metric i on: the endpoint after
\* the loop and the position of the metric that raised (0: none).  The
\* metrics are updated in place, one by one, in the order of the message.
RECURSIVE update_from_tahu_data(_, _, _)
update_from_tahu_data(endpoint, metrics, i) ==
    IF i > Len(metrics) THEN [endpoint |-> endpoint, failed_at |-> 0]
    ELSE LET metric_name == get_metric_name(endpoint.alias_map, metrics[i])
         IN IF \/ metric_name = MetricNameError
               \/ metric_name \notin DOMAIN endpoint.metrics
            THEN [endpoint |-> endpoint, failed_at |-> i]
            ELSE LET merged == merge_with_metric(endpoint.metrics[metric_name].value,
                                                 metrics[i])
                 IN IF merged.raised
                    THEN \* the fields merged before the failure stay in the value
                         [endpoint |-> [endpoint EXCEPT !.metrics[metric_name].value =
                                                            merged.value],
                          failed_at |-> i]
                    ELSE update_from_tahu_data(
                             [endpoint EXCEPT !.metrics[metric_name] =
                                 update_from_tahu(endpoint.metrics[metric_name], metrics[i])],
                             metrics, i + 1)

\* ClientEndpoint(endpoint_name, birth_metric=payload): the second loop of
\* update_from_tahu_birth from metric i on, on the new object.  Every metric
\* of a birth has a name; from_metric stores it as not fresh.
RECURSIVE endpoint_from_birth(_, _, _)
endpoint_from_birth(endpoint, metrics, i) ==
    IF i > Len(metrics) THEN [endpoint |-> endpoint, failed_at |-> 0]
    ELSE IF value_from_metric(metrics[i]).raised
    THEN [endpoint |-> endpoint, failed_at |-> i]
    ELSE endpoint_from_birth(
             ClientEndpoint(
                 DictSet(endpoint.metrics, metrics[i].name,
                         ClientEndpointMetric(value_from_metric(metrics[i]).value, FALSE)),
                 IF metrics[i].alias # NoneVal
                 THEN DictSet(endpoint.alias_map, metrics[i].alias, metrics[i].name)
                 ELSE endpoint.alias_map),
             metrics, i + 1)

\* Metrics per message the model follows.
MaxMetrics == 2

\* The alias the births give to x, and an alias no birth gives.
KnownAlias == 1
UnknownAlias == 9

\* The metric lists of the births: x with an alias, x and y, and one whose
\* second metric cannot be converted.
BirthMetricLists ==
    {<<TahuMetric("x", KnownAlias, 0, FALSE)>>,
     <<TahuMetric("x", KnownAlias, 0, FALSE), TahuMetric("y", NoneVal, 0, FALSE)>>,
     <<TahuMetric("x", KnownAlias, 0, FALSE), TahuMetric("y", NoneVal, 0, TRUE)>>}

\* The metrics of the data messages: x by name and by alias, y (registered
\* by some births only), an alias nobody registered, a metric with neither
\* name nor alias, and a value of x that cannot be converted.
DataMetrics ==
    {TahuMetric("x", NoneVal, 1, FALSE),
     TahuMetric(NoMetricName, KnownAlias, 1, FALSE),
     TahuMetric("y", NoneVal, 1, FALSE),
     TahuMetric(NoMetricName, UnknownAlias, 1, FALSE),
     TahuMetric(NoMetricName, NoneVal, 1, FALSE),
     TahuMetric("x", NoneVal, 1, TRUE)}

RECURSIVE ListsOf(_, _)
ListsOf(S, n) ==
    IF n = 0 THEN {<<>>}
    ELSE {<<>>} \cup {<<e>> \o l : e \in S, l \in ListsOf(S, n - 1)}

DataMetricLists == ListsOf(DataMetrics, MaxMetrics) \ {<<>>}

\* The birth of an endpoint with the record metric foo, and data messages of
\* one metric: foo with a template of up to MaxFields submetrics, among them
\* z, which is no field of foo.
MaxFields == 2

RecordBirthLists ==
    {<<TemplateMetric("foo", <<SubMetric("x", 1), SubMetric("y", 2)>>)>>}

SubMetrics == {SubMetric("x", 3), SubMetric("x", 5), SubMetric("y", 4), SubMetric("z", 6)}

RecordDataLists == {<<TemplateMetric("foo", t)>> : t \in ListsOf(SubMetrics, MaxFields)}

\* What the fixed method does with the table entry of the topic's endpoint:
\* _on_birth builds a new ClientEndpoint and stores it when the constructor
\* returns; _on_data updates the entry in place; _on_death leaves the metrics.
Handled(topic, metrics) ==
    CASE topic.base = "BIRTH" ->
           LET made == endpoint_from_birth(NoEndpoint, metrics, 1)
           IN IF made.failed_at = 0 THEN made
              ELSE [endpoint |-> endpoint_metrics[topic.endpoint_name],
                    failed_at |-> made.failed_at]
      [] topic.base = "DATA" ->
           update_from_tahu_data(endpoint_metrics[topic.endpoint_name], metrics, 1)
      [] topic.base = "DEATH" ->
           [endpoint |-> endpoint_metrics[topic.endpoint_name], failed_at |-> 0]

\* _route_message_to_user: the metrics handed to the callbacks, read from the
\* entry of the endpoint under the lock: those whose name is the name of a
\* metric of the payload (update_from_tahu_data has filled in the names of
\* the metrics sent by alias).
routed_metrics(endpoint, metrics) ==
    LET metric_names == {get_metric_name(endpoint.alias_map, metrics[i]) :
                             i \in 1 .. Len(metrics)}
    IN [name \in DOMAIN endpoint.metrics \cap metric_names |-> endpoint.metrics[name]]

\* What one call of _on_message_no_try does with a message: "empty" (dropped
\* because the payload is empty), "duplicate" (dropped by the fingerprint
\* check), "raised" (data or death for an endpoint not in the table: the
\* exception is logged by _on_message) or "routed".
Outcome(topic, payload) ==
    IF payload.empty THEN "empty"
    ELSE IF has_fingerprint(payload)
            /\ is_seen(seen_messages[topic], fingerprint_of(payload)) THEN "duplicate"
    ELSE IF topic.base # "BIRTH" /\ topic.endpoint_name \notin endpoints THEN "raised"
    ELSE "routed"

\* IcypawClient._on_message, for messages on the given topics with the given
\* payloads, whose metrics are drawn from birth_metrics (births) and
\* data_metrics (data messages).
on_message(topics, payloads, birth_metrics, data_metrics) ==
    /\ client_steps < MaxClientSteps
    /\ \E topic \in topics, payload \in payloads :
       \E metrics \in (IF payload.empty \/ topic.base = "DEATH" THEN {<<>>}
                       ELSE IF topic.base = "BIRTH" THEN birth_metrics
                       ELSE data_metrics) :
        LET reached == Outcome(topic, payload)
            handled == IF reached = "routed" THEN Handled(topic, metrics)
                       ELSE [endpoint |-> endpoint_metrics[topic.endpoint_name],
                             failed_at |-> 0]
            outcome == IF handled.failed_at # 0 THEN "raised" ELSE reached
            event == EventOf(message_type(topic))
            called == IF outcome = "routed"
                      THEN CalledFrom(user_subscriptions[event], topic.endpoint_name, 1)
                      ELSE <<>>
            keys == IF has_fingerprint(payload)
                    THEN {<<called[i], topic, fingerprint_of(payload)>> :
                              i \in 1 .. Len(called)}
                    ELSE {}
        IN /\ seen_messages' =
                IF has_fingerprint(payload) /\ outcome # "duplicate"
                THEN [seen_messages EXCEPT ![topic] = fingerprint_of(payload)]
                ELSE seen_messages
           /\ endpoints' =
                IF outcome = "routed" /\ topic.base = "BIRTH"
                THEN endpoints \cup {topic.endpoint_name}
                ELSE endpoints
           /\ endpoint_metrics' =
                [endpoint_metrics EXCEPT ![topic.endpoint_name] = handled.endpoint]
           /\ delivery' = [topic |-> topic, payload |-> payload, outcome |-> outcome,
                           previous |-> last_fingerprint[topic], called |-> called,
                           metrics |-> metrics, failed_at |-> handled.failed_at,
                           event |-> event,
                           subscribed |-> IF outcome = "routed"
                                          THEN Len(user_subscriptions[event]) ELSE 0,
                           passed |-> IF outcome = "routed"
                                      THEN routed_metrics(handled.endpoint, metrics)
                                      ELSE EmptyDict,
                           endpoints_before |-> endpoints,
                           endpoint_metrics_before |-> endpoint_metrics]
           /\ last_fingerprint' =
                IF has_fingerprint(payload)
                THEN [last_fingerprint EXCEPT ![topic] = fingerprint_of(payload)]
                ELSE last_fingerprint
           /\ invoked_once' = invoked_once \cup keys
           /\ invoked_twice' = invoked_twice \cup (keys \cap invoked_once)
    /\ client_steps' = client_steps + 1
    /\ UNCHANGED <<user_subscriptions, set_metric>>
    /\ UNCHANGED clientEndpointVars
    /\ UNCHANGED engineVars
    /\ UNCHANGED organizerVars
    /\ UNCHANGED registrationVars
    /\ UNCHANGED dispatchVars
    /\ UNCHANGED clientIfaceVars

\* ---- IcypawClient.set_endpoint_metric ----

\* The metric of the endpoint's copy the call reads: the Writable property
\* (False when the birth did not give it) and the Low and High properties
\* (None when absent) of a scalar metric.
WritableMetric(writable, low, high) == [writable |-> writable, low |-> low, high |-> high]

\* A check that lets every violation pass with a warning.
raise_by_default_warn_only(force) == "warn"

\* _raise_by_default: raise IcypawException, or warn when force is set.
raise_by_default(force) == IF force THEN "warn" ELSE "raise"

\* The checks of set_endpoint_metric in the order of the code, as the
\* messages of those that are violated.
violations(online, metric, value) ==
    (IF ~online THEN <<"offline">> ELSE <<>>)
    \o (IF ~metric.writable THEN <<"read-only">> ELSE <<>>)
    \o (IF metric.low # NoneVal /\ value < metric.low THEN <<"low">> ELSE <<>>)
    \o (IF metric.high # NoneVal /\ value > metric.high THEN <<"high">> ELSE <<>>)

\* What a call of set_endpoint_metric does: whether it raised, the warnings
\* it gave, and whether it published the NCMD or DCMD.  An unknown endpoint
\* raises whatever force is.
SetMetricResult(known, online, metric, value, force) ==
    LET violated == violations(online, metric, value)
    IN IF ~known
       THEN [raised |-> TRUE, warnings |-> <<>>, published |-> FALSE]
       ELSE IF violated # <<>> /\ raise_by_default(force) = "raise"
       THEN [raised |-> TRUE, warnings |-> <<>>, published |-> FALSE]
       ELSE [raised |-> FALSE, warnings |-> violated, published |-> TRUE]

\* Values written and the limits of the metrics: Low is 1 and High is
\* MaxValue - 1, or the metric has no limits.
MaxValue == 3

WritableMetrics ==
    {WritableMetric(w, l[1], l[2]) :
        w \in BOOLEAN, l \in {<<NoneVal, NoneVal>>, <<1, MaxValue - 1>>,
                              <<1, NoneVal>>, <<NoneVal, MaxValue - 1>>}}

\* IcypawClient.set_endpoint_metric(endpoint_name, metric_name, value, _force)
\* for a metric of the endpoint whose liveness the model follows.
set_endpoint_metric ==
    /\ \E metric \in WritableMetrics, value \in 0 .. MaxValue, force \in BOOLEAN :
        set_metric' = [known |-> in_table, online |-> is_online, metric |-> metric,
                       value |-> value, force |-> force,
                       result |-> SetMetricResult(in_table, is_online, metric, value, force)]
    /\ UNCHANGED <<seen_messages, endpoints, endpoint_metrics, user_subscriptions, delivery,
                   last_fingerprint, invoked_once, invoked_twice, client_steps>>
    /\ UNCHANGED clientEndpointVars
    /\ UNCHANGED engineVars
    /\ UNCHANGED organizerVars
    /\ UNCHANGED registrationVars
    /\ UNCHANGED dispatchVars
    /\ UNCHANGED clientIfaceVars

NoSetMetric ==
    [known |-> FALSE, online |-> FALSE, metric |-> WritableMetric(FALSE, NoneVal, NoneVal),
     value |-> 0, force |-> FALSE,
     result |-> [raised |-> FALSE, warnings |-> <<>>, published |-> FALSE]]

NoDelivery ==
    [topic |-> Topic("BIRTH", NodeN1), payload |-> ClientPayload(TRUE, NoneVal, NoneVal),
     outcome |-> "none", previous |-> NoFingerprint, called |-> <<>>,
     metrics |-> <<>>, failed_at |-> 0, event |-> "ONLINE", subscribed |-> 0,
     passed |-> EmptyDict, endpoints_before |-> {},
     endpoint_metrics_before |-> [name \in EndpointNames |-> NoEndpoint]]

\* IcypawClient.__init__
InitClient ==
    /\ seen_messages = [topic \in Topics |-> NoFingerprint]
    /\ endpoints = {}
    /\ endpoint_metrics = [name \in EndpointNames |-> NoEndpoint]
    /\ user_subscriptions = [event \in Events |-> <<>>]
    /\ delivery = NoDelivery
    /\ last_fingerprint = [topic \in Topics |-> NoFingerprint]
    /\ invoked_once = {}
    /\ invoked_twice = {}
    /\ client_steps = 0
    /\ set_metric = NoSetMetric

(***************************************************************************)
(* PART 3.  ServerEngine (server_engine.py), its queue items               *)
(* (engine_queue.py), the node it powers (server_endpoint_base.py) and     *)
(* its wire interface (tahu_interface.py)                                  *)
(***************************************************************************)

\* ---- Queue items (engine_queue.py) ----

\* The device objects of the application; both carry the device id "D1".
DeviceObjects == {"dev1", "dev2"}
NoDevice == "None"

\* The statements a scheduled function executes on the node, in order:
\*   set_x       assign a new value to the node metric x
\*   add_y_int   icpw_add_metric('y', <an Int64 metric>)
\*   add_y_str   icpw_add_metric('y', <a String metric>)
\*   del_y       icpw_del_metric('y')
\*   fail        raise an exception
NoOp == <<>>
SetX == <<"set_x">>
AddY == <<"add_y_int">>
DelY == <<"del_y">>
SetXAddY == <<"set_x", "add_y_int">>
ReplaceY == <<"del_y", "add_y_str">>
SetXFail == <<"set_x", "fail">>

\* The functions given to icpw_run_in.
RunInFuncs == {NoOp, SetX, AddY, DelY, SetXAddY, ReplaceY, SetXFail}

\* The metric lists of the NCMD payloads received: a write to x, a write to
\* x with a call of the add-metric command, a metric the node does not have.
NcmdFuncs == {SetX, SetXAddY, <<"fail">>}

\* QueueItem and its subclasses.  id numbers the item objects in the order
\* of their creation; guarded says that func is ncmd_func, which catches
\* every exception of its body; t0 and k are history (the time of the first
\* item of a repeating chain and the number of reinsertions since).
QueueItem(id, type, exec_time, func, guarded, repeat_sec, device, t0, k) ==
    [id |-> id, type |-> type, time |-> exec_time, func |-> func, guarded |-> guarded,
     repeat_sec |-> repeat_sec, device |-> device, t0 |-> t0, k |-> k]

\* ScheduleQueueItem(func, repeat_sec, delay_sec): exec_time = time.time() + delay_sec
ScheduleQueueItem(id, func, guarded, repeat_sec, delay_sec) ==
    QueueItem(id, "Schedule", now + delay_sec, func, guarded, repeat_sec, NoDevice,
              now + delay_sec, 0)

\* RegisterDeviceQueueItem(node, device): exec_time = time.time()
RegisterDeviceQueueItem(id, device) ==
    QueueItem(id, "RegisterDevice", now, NoOp, FALSE, NoneVal, device, now, 0)

\* UnregisterDeviceQueueItem(node, device): exec_time = time.time()
UnregisterDeviceQueueItem(id, device) ==
    QueueItem(id, "UnregisterDevice", now, NoOp, FALSE, NoneVal, device, now, 0)

\* NodeRebirthQueueItem(): exec_time = time.time()
NodeRebirthQueueItem(id) ==
    QueueItem(id, "NodeRebirth", now, NoOp, FALSE, NoneVal, NoDevice, now, 0)

NoItem == QueueItem(0, "none", 0, NoOp, FALSE, NoneVal, NoDevice, 0, 0)

\* QueueItem.__lt__, as used by the comparison of the (item.time, item)
\* tuples in the heap: the first components decide; for equal times the
\* items are compared, and then neither is less than the other.
LessThan(a, b) == a.time < b.time

\* ---- heapq on ServerEngine._scheduled_events ----
\* Positions are those of the Python list (from 0); heap[pos + 1] is the
\* element at position pos.

\* heapq._siftdown(heap, startpos, pos) with newitem = heap[pos]
RECURSIVE siftdown(_, _, _, _)
siftdown(heap, startpos, pos, newitem) ==
    IF pos > startpos
    THEN LET parentpos == (pos - 1) \div 2
             parent == heap[parentpos + 1]
         IN IF LessThan(newitem, parent)
            THEN siftdown([heap EXCEPT ![pos + 1] = parent], startpos, parentpos, newitem)
            ELSE [heap EXCEPT ![pos + 1] = newitem]
    ELSE [heap EXCEPT ![pos + 1] = newitem]

\* heapq.heappush(heap, item)
heappush(heap, item) == siftdown(Append(heap, item), 0, Len(heap), item)

\* heapq._siftup(heap, pos): the smaller child is moved up until a leaf is
\* reached (the right child when the left one is not less than it), then
\* newitem is sifted down from there.
RECURSIVE siftup(_, _, _)
siftup(heap, pos, newitem) ==
    LET endpos == Len(heap)
        childpos == 2 * pos + 1
        rightpos == childpos + 1
        smaller == IF rightpos < endpos /\ ~LessThan(heap[childpos + 1], heap[rightpos + 1])
                   THEN rightpos ELSE childpos
    IN IF childpos < endpos
       THEN siftup([heap EXCEPT ![pos + 1] = heap[smaller + 1]], smaller, newitem)
       ELSE siftdown([heap EXCEPT ![pos + 1] = newitem], 0, pos, newitem)

\* heapq.heappop(heap): the popped item and the heap that is left.
heappop(heap) ==
    LET lastelt == heap[Len(heap)]
        rest == SubSeq(heap, 1, Len(heap) - 1)
    IN IF rest # <<>>
       THEN [item |-> heap[1], heap |-> siftup(rest, 0, lastelt)]
       ELSE [item |-> lastelt, heap |-> <<>>]

\* The inner loop of process_events: _wait_on_queue() moves the inbound
\* items, in queue order, onto the heap until the queue is empty.
RECURSIVE wait_on_queue(_, _)
wait_on_queue(heap, inbound) ==
    IF inbound = <<>> THEN heap
    ELSE wait_on_queue(heappush(heap, Head(inbound)), Tail(inbound))

\* process_events with every head of the heap taken as due.
is_due_always(event_time, current_time) == TRUE

\* process_events: event_time == 0 or event_time <= time.time()
is_due(event_time, current_time) == event_time = 0 \/ event_time <= current_time

\* The reinsertion time computed from the time of processing.
repeat_time_from_now(item, current_time) == current_time + item.repeat_sec

\* _process_ScheduleQueueItem: new_time = item.time + item.payload.repeat_sec
repeat_time(item, current_time) == item.time + item.repeat_sec

\* The metric updates published only after a body that returned.
publish_calls_on_return(body_raised) == IF body_raised THEN 0 ELSE 1

\* _process_ScheduleQueueItem: the finally clause calls
\* _publish_metric_updates once, whether or not the body raised.
publish_calls(body_raised) == 1

\* ---- The node endpoint (server_endpoint_base.py) ----

\* A metric the endpoint does not have; otherwise y is known by its datatype.
Absent == "absent"

\* The node: the value of its declared metric x, its dynamic metric y, the
\* entry of x in _metric_dict (the value last sent) and
\* _fresh_birth_certificate.  The entry of y in _metric_dict exists exactly
\* while the node has y, and the model never assigns to y.
NodeState(x, y, metric_dict_x, fresh) ==
    [x |-> x, y |-> y, metric_dict_x |-> metric_dict_x, fresh |-> fresh]

\* What running a scheduled function leaves: the node, whether an exception
\* came out of it, and whether it added or deleted a metric.
RECURSIVE run_func(_, _, _)
run_func(func, nd, dynamic) ==
    IF func = <<>> THEN [node |-> nd, raised |-> FALSE, dynamic |-> dynamic]
    ELSE LET op == Head(func)
             failed == [node |-> nd, raised |-> TRUE, dynamic |-> dynamic]
         IN CASE op = "set_x" ->
                    run_func(Tail(func), [nd EXCEPT !.x = 1 - @], dynamic)
              [] op \in {"add_y_int", "add_y_str"} ->
                    \* icpw_add_metric raises if the name exists
                    IF nd.y # Absent THEN failed
                    ELSE run_func(Tail(func),
                                  [nd EXCEPT !.y = IF op = "add_y_int" THEN "Int64" ELSE "String",
                                             !.fresh = FALSE], TRUE)
              [] op = "del_y" ->
                    \* icpw_del_metric raises if the metric cannot be found
                    IF nd.y = Absent THEN failed
                    ELSE run_func(Tail(func), [nd EXCEPT !.y = Absent, !.fresh = FALSE], TRUE)
              [] OTHER -> failed

\* The command every endpoint class of the model declares, under the name
\* conventions.make_command gives it.
CommandName == "command/do"

\* The names of an endpoint's metrics and commands as tahu_metrics() and
\* tahu_commands() list them.
metric_names(y) == IF y = Absent THEN {"x", CommandName} ELSE {"x", "y", CommandName}

\* ---- The wire interface (tahu_interface.py) ----

\* TahuServerInterface: the Seq counter, bdSeq, _is_born, the entry of y in
\* the node's MetricOrganizer (its datatype, or absent), whether
\* _metric_organizers has an organizer for the device id, and the entry of
\* y in that organizer.
InterfaceState(seq, bdSeq, is_born, node_y, device_organizer, device_y) ==
    [seq |-> seq, bdSeq |-> bdSeq, is_born |-> is_born, node_y |-> node_y,
     device_organizer |-> device_organizer, device_y |-> device_y]

\* Seq._advance
advance(seq) == (seq + 1) % ByteMod

\* A published message: its type, its seq field (None when the payload has
\* no seq set), the retain flag, the value of its bdSeq metric (None when it
\* has none), the names of its other metrics, and whether the payload is
\* the empty string.
Message(mtype, seq, retain, bdSeq, metrics, empty) ==
    [message_type |-> mtype, seq |-> seq, retain |-> retain, bdSeq |-> bdSeq,
     metrics |-> metrics, empty |-> empty]

\* An NBIRTH that takes a new bdSeq each time it is built.
new_nbirth_next_bdseq(ifc) ==
    [iface |-> [ifc EXCEPT !.is_born = TRUE, !.seq = advance(0),
                           !.bdSeq = (@ + 1) % ByteMod],
     payload |-> Message("NBIRTH", 0, TRUE, (ifc.bdSeq + 1) % ByteMod,
                         metric_names(ifc.node_y), FALSE)]

\* An NBIRTH built without setting the born flag.
new_nbirth_unborn(ifc) ==
    [iface |-> [ifc EXCEPT !.seq = advance(0)],
     payload |-> Message("NBIRTH", 0, TRUE, ifc.bdSeq, metric_names(ifc.node_y), FALSE)]

\* TahuServerInterface.new_nbirth: sets the born flag, resets the sequence
\* number and lists the bdSeq metric and the metrics of the node organizer.
new_nbirth(ifc) ==
    [iface |-> [ifc EXCEPT !.is_born = TRUE, !.seq = advance(0)],
     payload |-> Message("NBIRTH", 0, TRUE, ifc.bdSeq, metric_names(ifc.node_y), FALSE)]

\* TahuServerInterface.new_ndeath: a bdSeq metric, no timestamp, no seq.
new_ndeath(ifc) == Message("NDEATH", NoneVal, TRUE, ifc.bdSeq, {}, FALSE)

\* TahuServerInterface.new_seq_payload, as used by new_dbirth and new_ddeath
new_seq_payload(ifc, mtype, metrics) ==
    [iface |-> [ifc EXCEPT !.seq = advance(@)],
     payload |-> Message(mtype, ifc.seq, TRUE, NoneVal, metrics, FALSE)]

\* ---- ServerEngine (server_engine.py) ----

\* DeviceState, stored under the device id in ServerEngine._devices; known
\* is FALSE while the id is not a key of _devices.
DeviceState(known, device, bdSeq, is_up, dcmd_subscribed) ==
    [known |-> known, device |-> device, bdSeq |-> bdSeq, is_up |-> is_up,
     dcmd_subscribed |-> dcmd_subscribed]

\* DeviceState.increment_bdSeq
increment_bdSeq(bdSeq) == IF bdSeq + 1 = 256 THEN 0 ELSE bdSeq + 1

\* The part of the engine a handler reads and writes.
EngineState == [scheduled_events |-> scheduled_events, next_id |-> next_id, node |-> node,
                iface |-> iface, devices |-> devices, device_endpoint |-> device_endpoint,
                command_queue_set |-> command_queue_set]

\* What a Schedule item did, for the history: dynamic, changed and stale
\* are about the node (a metric was added or deleted, the value of x is
\* another, the birth certificate was stale after the body); device holds
\* the same three for the device; caught says that the body failed inside
\* ncmd_func or dcmd_func, which logged the exception.
Info(body_raised, calls, dynamic, changed, stale, reinserted, device, caught) ==
    [body_raised |-> body_raised, publish_calls |-> calls, dynamic |-> dynamic,
     changed |-> changed, stale |-> stale, reinserted |-> reinserted, device |-> device,
     caught |-> caught]

NoDeviceInfo == [dynamic |-> FALSE, changed |-> FALSE, stale |-> FALSE]

NoInfo == Info(FALSE, 0, FALSE, FALSE, FALSE, NoItem, NoDeviceInfo, FALSE)

\* The outcome of a handler: the engine state it leaves, the messages it
\* published in order, and whether an exception came out of it.
Result(state, published, raised, info) ==
    [state |-> state, published |-> published, raised |-> raised, info |-> info]

\* _rebirth_node: every metric of the node is set on the interface with
\* add_if_missing (MetricOrganizer.set validates the datatype against the
\* entry it holds and raises on a mismatch), the metrics the node no longer
\* has are deleted, and a new NBIRTH is built and published.
rebirth_node(nd, ifc) ==
    IF nd.y # Absent /\ ifc.node_y # Absent /\ ifc.node_y # nd.y
    THEN [iface |-> ifc, published |-> <<>>, raised |-> TRUE]
    ELSE LET nbirth == new_nbirth([ifc EXCEPT !.node_y = nd.y])
         IN [iface |-> nbirth.iface, published |-> <<nbirth.payload>>, raised |-> FALSE]

\* _create_updated_endpoint_metric_payload for the node: icpw_updated_metrics
\* compares every metric with its _metric_dict entry; None when nothing
\* changed, otherwise a payload from new_payload(), which sets no seq.
updated_metrics(nd) == IF nd.metric_dict_x # nd.x THEN {"x"} ELSE {}

\* _publish_node_metric_updates: an NDATA with the updated metrics while
\* the birth certificate is fresh, otherwise _rebirth_node and the birth
\* certificate is made fresh.
publish_node_metric_updates(nd, ifc) ==
    IF nd.fresh
    THEN IF updated_metrics(nd) # {}
         THEN [node |-> [nd EXCEPT !.metric_dict_x = nd.x], iface |-> ifc,
               published |-> <<Message("NDATA", NoneVal, FALSE, NoneVal,
                                       updated_metrics(nd), FALSE)>>,
               raised |-> FALSE]
         ELSE [node |-> nd, iface |-> ifc, published |-> <<>>, raised |-> FALSE]
    ELSE LET birth == rebirth_node(nd, ifc)
         IN [node |-> [nd EXCEPT !.fresh = IF birth.raised THEN @ ELSE TRUE],
             iface |-> birth.iface, published |-> birth.published,
             raised |-> birth.raised]

\* _rebirth_device: every metric of the device is set on the interface by
\* set_device_metric, which looks up the organizer of the device id (a
\* KeyError when unregister_device removed it) and calls
\* MetricOrganizer.set without add_if_missing (an error when the organizer
\* has no entry of that name or one of another datatype); then a DBIRTH
\* with all entries of the organizer is built and published.
rebirth_device(dev, ifc) ==
    IF \/ ~ifc.device_organizer
       \/ ~ifc.is_born
       \/ dev.y # Absent /\ ifc.device_y # dev.y
    THEN [iface |-> ifc, published |-> <<>>, raised |-> TRUE]
    ELSE LET dbirth == new_seq_payload(ifc, "DBIRTH", metric_names(ifc.device_y))
         IN [iface |-> dbirth.iface, published |-> <<dbirth.payload>>, raised |-> FALSE]

\* _publish_device_metric_updates: the same for every entry of _devices,
\* whatever its is_up, with DDATA and _rebirth_device.
publish_device_metric_updates(device_state, dev, ifc) ==
    IF ~device_state.known
    THEN [device |-> dev, iface |-> ifc, published |-> <<>>, raised |-> FALSE]
    ELSE IF dev.fresh
         THEN IF updated_metrics(dev) # {}
              THEN [device |-> [dev EXCEPT !.metric_dict_x = dev.x], iface |-> ifc,
                    published |-> <<Message("DDATA", NoneVal, FALSE, NoneVal,
                                            updated_metrics(dev), FALSE)>>,
                    raised |-> FALSE]
              ELSE [device |-> dev, iface |-> ifc, published |-> <<>>, raised |-> FALSE]
         ELSE LET birth == rebirth_device(dev, ifc)
              IN [device |-> [dev EXCEPT !.fresh = IF birth.raised THEN @ ELSE TRUE],
                  iface |-> birth.iface, published |-> birth.published,
                  raised |-> birth.raised]

\* _publish_metric_updates: _publish_node_metric_updates, then
\* _publish_device_metric_updates unless the former raised.
publish_metric_updates(nd, device_state, dev, ifc) ==
    LET n == publish_node_metric_updates(nd, ifc)
        dv == publish_device_metric_updates(device_state, dev, n.iface)
    IN IF n.raised
       THEN [node |-> n.node, device |-> dev, iface |-> n.iface,
             published |-> n.published, raised |-> TRUE]
       ELSE [node |-> n.node, device |-> dv.device, iface |-> dv.iface,
             published |-> n.published \o dv.published, raised |-> dv.raised]

\* A device record that never counts as down.
is_down_never(device_state) == FALSE

\* DeviceState.is_down
is_down(device_state) == ~device_state.is_up

\* _process_ScheduleQueueItem.  The function of the item is a method of the
\* node, or of the device object when the item names one.
process_ScheduleQueueItem(item, S, current_time) ==
    LET on_device == item.device # NoDevice
        is_dcmd == on_device /\ item.guarded
        target == IF on_device THEN S.device_endpoint ELSE S.node
        body == IF is_dcmd /\ ~S.devices.known
                THEN \* dcmd_func: the device does not exist
                     [node |-> target, raised |-> TRUE, dynamic |-> FALSE]
                ELSE IF is_dcmd /\ is_down(S.devices)
                THEN \* dcmd_func: the device is down, the message is dropped
                     [node |-> target, raised |-> FALSE, dynamic |-> FALSE]
                ELSE run_func(item.func, target, FALSE)
        body_node == IF on_device THEN S.node ELSE body.node
        body_device == IF on_device THEN body.node ELSE S.device_endpoint
        body_raised == body.raised /\ ~item.guarded
        reinsert == ~body_raised /\ item.repeat_sec # NoneVal
        new_item == QueueItem(S.next_id, "Schedule", repeat_time(item, current_time),
                              item.func, item.guarded, item.repeat_sec, item.device,
                              item.t0, item.k + 1)
        calls == publish_calls(body_raised)
        pub == IF calls > 0
               THEN publish_metric_updates(body_node, S.devices, body_device, S.iface)
               ELSE [node |-> body_node, device |-> body_device, iface |-> S.iface,
                     published |-> <<>>, raised |-> FALSE]
    IN Result([S EXCEPT !.scheduled_events = IF reinsert THEN heappush(@, new_item) ELSE @,
                        !.next_id = IF reinsert THEN @ + 1 ELSE @,
                        !.node = pub.node,
                        !.device_endpoint = pub.device,
                        !.iface = pub.iface],
              pub.published,
              body_raised \/ pub.raised,
              Info(body_raised, calls, ~on_device /\ body.dynamic, body_node.x # S.node.x,
                   ~body_node.fresh, IF reinsert THEN new_item ELSE NoItem,
                   [dynamic |-> on_device /\ body.dynamic,
                    changed |-> body_device.x # S.device_endpoint.x,
                    stale |-> ~body_device.fresh],
                   body.raised /\ item.guarded))

\* A registration that publishes the DBIRTH and leaves a retained DDEATH
\* in place.
birth_device_no_clear(S, device_state) ==
    LET ifc == [S.iface EXCEPT !.device_organizer = TRUE,
                               !.device_y = S.device_endpoint.y]
        dbirth == new_seq_payload(ifc, "DBIRTH", metric_names(ifc.device_y))
    IN Result([S EXCEPT !.devices = device_state, !.iface = dbirth.iface],
              <<dbirth.payload>>, FALSE, NoInfo)

\* The end of _process_RegisterDeviceQueueItem: register_device gives the
\* device id a new organizer, set_initial_device_metrics fills it with the
\* metrics and commands of the device (icpw_add_metric and icpw_del_metric
\* act on the class, so every object of the class lists the same), and a
\* DBIRTH and the empty payload that clears a retained DDEATH are published.
birth_device(S, device_state) ==
    LET ifc == [S.iface EXCEPT !.device_organizer = TRUE,
                               !.device_y = S.device_endpoint.y]
    IN IF ~S.iface.is_born
       THEN Result([S EXCEPT !.devices = device_state, !.iface = ifc], <<>>, TRUE, NoInfo)
       ELSE LET dbirth == new_seq_payload(ifc, "DBIRTH", metric_names(ifc.device_y))
            IN Result([S EXCEPT !.devices = device_state, !.iface = dbirth.iface],
                      <<dbirth.payload, Message("DDEATH", NoneVal, TRUE, NoneVal, {}, TRUE)>>,
                      FALSE, NoInfo)

\* _process_RegisterDeviceQueueItem
process_RegisterDeviceQueueItem(item, S) ==
    IF S.command_queue_set[item.device]
    THEN \* icpw_register_command_queue: 'Command queue may not be set more than once'
         Result(S, <<>>, TRUE, NoInfo)
    ELSE LET S1 == [S EXCEPT !.command_queue_set[item.device] = TRUE]
         IN IF S.devices.known
            THEN LET device_state == [S.devices EXCEPT !.bdSeq = increment_bdSeq(@),
                                                       !.is_up = TRUE]
                 IN IF S.iface.device_organizer
                    THEN birth_device(S1, device_state)
                    ELSE \* iface.unregister_device: del of a missing key raises
                         Result([S1 EXCEPT !.devices = device_state], <<>>, TRUE, NoInfo)
            ELSE birth_device(S1, DeviceState(TRUE, item.device, 0, TRUE, TRUE))

\* _process_UnregisterDeviceQueueItem
process_UnregisterDeviceQueueItem(item, S) ==
    IF ~S.devices.known
    THEN Result(S, <<>>, TRUE, NoInfo)
    ELSE LET S1 == [S EXCEPT !.devices.is_up = FALSE]
         IN IF ~S.iface.device_organizer
            THEN \* iface.unregister_device: del of a missing key raises
                 Result(S1, <<>>, TRUE, NoInfo)
            ELSE LET ddeath == new_seq_payload([S.iface EXCEPT !.device_organizer = FALSE],
                                               "DDEATH", {})
                 IN Result([S1 EXCEPT !.iface = ddeath.iface], <<ddeath.payload>>,
                           FALSE, NoInfo)

\* _process_NodeRebirthQueueItem
process_NodeRebirthQueueItem(item, S) ==
    LET birth == rebirth_node(S.node, S.iface)
    IN Result([S EXCEPT !.iface = birth.iface], birth.published, birth.raised, NoInfo)

\* _process_event
process_event(item, S, current_time) ==
    CASE item.type = "Schedule" -> process_ScheduleQueueItem(item, S, current_time)
      [] item.type = "RegisterDevice" -> process_RegisterDeviceQueueItem(item, S)
      [] item.type = "UnregisterDevice" -> process_UnregisterDeviceQueueItem(item, S)
      [] item.type = "NodeRebirth" -> process_NodeRebirthQueueItem(item, S)

\* History: the run of seq values over the birth and data messages
\* published so far.  last is the seq of the latest of them ("none" value
\* None before the first), contiguous says that the first carried 0 and
\* each later one the seq before it plus 1 mod 256.
RECURSIVE seq_run_after(_, _)
seq_run_after(run, published) ==
    IF published = <<>> THEN run
    ELSE LET m == Head(published)
             expected == IF run.count = 0 THEN 0 ELSE advance(run.last)
         IN IF m.message_type \in {"NBIRTH", "DBIRTH", "NDATA", "DDATA"}
            THEN seq_run_after([last |-> m.seq,
                                contiguous |-> run.contiguous /\ m.seq = expected,
                                count |-> IF run.count < 2 THEN run.count + 1 ELSE 2],
                               Tail(published))
            ELSE seq_run_after(run, Tail(published))

\* ---- The steps of the engine and of its environment ----

\* The clock starts at StartTime and is followed up to MaxTime.
StartTime == 1
MaxTime == 3

\* The delays given to icpw_run_in, in seconds.
MaxDelay == 1

\* The period of the timer a node may declare.
TimerPeriod == 1

\* The number of queue items the application creates (the reinsertions of
\* a repeating item come on top).
MaxScheduledItems == 4
MaxEngineItems == 3
MaxDeviceItems == 4

\* What the retained NBIRTH found on the broker carries as bdSeq at connect;
\* None when the query times out.
LastBdSeqs == {NoneVal, 0, 255}

\* The next bdSeq without the reduction mod 256.
get_next_bdseq_nowrap(last_bdseq) ==
    IF last_bdseq # NoneVal THEN last_bdseq + 1 ELSE 0

\* _get_next_bdseq
get_next_bdseq(last_bdseq) ==
    IF last_bdseq # NoneVal THEN (last_bdseq + 1) % 256 ELSE 0

\* The history record of a step.
Step(type, item, prev, earlier, result, fresh_before, devices_before) ==
    [type |-> type, item |-> item, prev |-> prev, earlier |-> earlier, raised |-> result.raised,
     published |-> result.published, info |-> result.info,
     fresh_before |-> fresh_before, devices_before |-> devices_before]

\* ServerEngine.connect and on_connect, up to the start of the network loop.
connect(last_bdseqs) ==
    /\ ~connected
    /\ \E last_bdseq \in last_bdseqs :
        LET nbirth == new_nbirth([iface EXCEPT !.bdSeq = get_next_bdseq(last_bdseq)])
            ndeath == new_ndeath(nbirth.iface)
        IN /\ iface' = nbirth.iface
           /\ last_nbirth' = last_bdseq
           /\ will' = [payload |-> ndeath, qos |-> 1, retain |-> TRUE]
           /\ connect_log' = <<"get_next_bdseq", "will_set", "connect", "publish NBIRTH",
                               "message_callback_add NCMD", "subscribe NCMD",
                               "node.on_connect", "loop_start">>
           /\ step' = Step("connect", NoItem, step.prev, step.earlier,
                           Result(EngineState, <<nbirth.payload>>, FALSE, NoInfo),
                           node.fresh, devices)
           /\ seq_run' = seq_run_after(seq_run, <<nbirth.payload>>)
    /\ connected' = TRUE
    /\ UNCHANGED <<scope_exit, wait, now, queue, scheduled_events, next_id, node, devices, device_endpoint,
                   command_queue_set>>
    /\ UNCHANGED clientEndpointVars
    /\ UNCHANGED clientVars
    /\ UNCHANGED organizerVars
    /\ UNCHANGED registrationVars
    /\ UNCHANGED dispatchVars
    /\ UNCHANGED clientIfaceVars

\* The ways in which the body of "with engine.connect(...)" ends: it
\* returns, it raises IcypawEngineShutdownException, or it raises another
\* exception.
ExitPaths == {"return", "shutdown", "exception"}

NoExit == [path |-> "none", shutdown_raised |-> FALSE, calls |-> <<>>]

\* The calls made without the finally clause: on_disconnect only when
\* nothing was raised.
exit_calls_no_finally(path, shutdown_raises) ==
    CASE path = "shutdown" /\ shutdown_raises -> <<"node.on_shutdown">>
      [] path = "shutdown" /\ ~shutdown_raises ->
            <<"node.on_shutdown", "disconnect", "loop_stop", "node.on_disconnect">>
      [] path = "exception" -> <<>>
      [] OTHER -> <<"loop_stop", "node.on_disconnect">>

\* connect after the yield: the except clause for
\* IcypawEngineShutdownException calls node.on_shutdown and then drops the
\* transport (not reached when on_shutdown raises); the finally clause
\* stops the network loop and calls node.on_disconnect.
exit_calls(path, shutdown_raises) ==
    (CASE path = "shutdown" /\ shutdown_raises -> <<"node.on_shutdown">>
       [] path = "shutdown" /\ ~shutdown_raises -> <<"node.on_shutdown", "disconnect">>
       [] OTHER -> <<>>)
    \o <<"loop_stop", "node.on_disconnect">>

\* The scope of connect is left.
exit_scope ==
    /\ connected
    /\ scope_exit = NoExit
    /\ \E path \in ExitPaths, shutdown_raises \in BOOLEAN :
        /\ shutdown_raises => path = "shutdown"
        /\ scope_exit' = [path |-> path, shutdown_raised |-> shutdown_raises,
                          calls |-> exit_calls(path, shutdown_raises)]
    /\ UNCHANGED <<connected, connect_log, last_nbirth, will, wait, now, queue,
                   scheduled_events, next_id, node, iface, devices, device_endpoint, command_queue_set, step, seq_run>>
    /\ UNCHANGED clientEndpointVars
    /\ UNCHANGED clientVars
    /\ UNCHANGED organizerVars
    /\ UNCHANGED registrationVars
    /\ UNCHANGED dispatchVars
    /\ UNCHANGED clientIfaceVars

\* icpw_enqueue_command once the command queue is registered: the item is
\* put on the engine's queue.
enqueue(item) ==
    /\ queue' = Append(queue, item)
    /\ next_id' = next_id + 1
    /\ UNCHANGED <<connected, connect_log, last_nbirth, will, scope_exit, wait, now,
                   scheduled_events, node, iface,
                   devices, device_endpoint, command_queue_set, step, seq_run>>
    /\ UNCHANGED clientEndpointVars
    /\ UNCHANGED clientVars
    /\ UNCHANGED organizerVars
    /\ UNCHANGED registrationVars
    /\ UNCHANGED dispatchVars
    /\ UNCHANGED clientIfaceVars

\* ServerEndpointBase.icpw_run_in(seconds, func)
icpw_run_in(delays, funcs, max_items) ==
    /\ next_id <= max_items
    /\ \E seconds \in delays, func \in funcs :
        enqueue(ScheduleQueueItem(next_id, func, FALSE, NoneVal, seconds))

\* ServerEndpointBase.icpw_run_in(seconds, func) called on the device object
\* the engine holds, once its command queue is registered.
icpw_run_in_device(funcs, max_items) ==
    /\ next_id <= max_items
    /\ devices.known
    /\ command_queue_set[devices.device]
    /\ \E func \in funcs :
        enqueue(QueueItem(next_id, "Schedule", now, func, FALSE, NoneVal, devices.device,
                          now, 0))

\* ServerEngine.on_ncmd: the transport delivers an NCMD while the network
\* loop runs; its handling is scheduled as ncmd_func.
on_ncmd(max_items) ==
    /\ connected
    /\ scope_exit = NoExit
    /\ next_id <= max_items
    /\ \E func \in NcmdFuncs :
        enqueue(ScheduleQueueItem(next_id, func, TRUE, NoneVal, 0))

\* The metric lists of the DCMD payloads received: a write to x, a call of a
\* command that adds a metric to the device, a metric the device does not
\* have.
DcmdFuncs == {SetX, AddY, <<"fail">>}

\* The device_id of the DCMD topic (the model has one device id).
TopicDevice == "D1"

\* ServerEngine.on_dcmd: the transport delivers a DCMD on a topic the
\* engine subscribed to; its handling is scheduled as dcmd_func, which
\* looks the device up when it runs.
on_dcmd ==
    /\ connected
    /\ scope_exit = NoExit
    /\ devices.dcmd_subscribed
    /\ next_id <= MaxEngineItems
    /\ \E func \in DcmdFuncs :
        enqueue(QueueItem(next_id, "Schedule", now, func, TRUE, NoneVal, TopicDevice,
                          now, 0))

\* IcypawNode.icpw_register_device
icpw_register_device(max_items) ==
    /\ next_id <= max_items
    /\ \E device \in DeviceObjects : enqueue(RegisterDeviceQueueItem(next_id, device))

\* IcypawNode.icpw_unregister_device
icpw_unregister_device(max_items) ==
    /\ next_id <= max_items
    /\ \E device \in DeviceObjects : enqueue(UnregisterDeviceQueueItem(next_id, device))

\* IcypawNode.icpw_rebirth
icpw_rebirth ==
    /\ next_id <= MaxEngineItems
    /\ enqueue(NodeRebirthQueueItem(next_id))

\* The call of _wait_on_queue the engine thread is blocked in (active) or
\* made last: who made it, the max_time given to wait_on_event, the time of
\* the head of the heap at the call (None for an empty heap), the
\* until_time passed on, the returned value ("none" while there is none),
\* whether the call moved an item to the heap, and when it returned.
Wait(active, caller, max_time, head_time, until_time, result, moved, returned_at) ==
    [active |-> active, caller |-> caller, max_time |-> max_time,
     head_time |-> head_time, until_time |-> until_time, result |-> result,
     moved |-> moved, returned_at |-> returned_at]

NoWait == Wait(FALSE, "none", NoneVal, NoneVal, NoneVal, "none", FALSE, NoneVal)

\* A get that blocks whatever until_time is.
queue_get_blocking(until_time, current_time) ==
    [block |-> TRUE, time_left |-> NoneVal]

\* _wait_on_queue: the block and timeout arguments of self._queue.get
queue_get(until_time, current_time) ==
    IF until_time = NoneVal
    THEN [block |-> TRUE, time_left |-> NoneVal]
    ELSE LET time_left == IF until_time - current_time > 0
                          THEN until_time - current_time ELSE 0
         IN [block |-> time_left # 0, time_left |-> time_left]

\* The until_time of a wait that looks at max_time only.
wait_until_time_max_only(heap, max_time) == max_time

\* wait_on_event: the until_time given to _wait_on_queue
wait_until_time(heap, max_time) ==
    IF heap # <<>>
    THEN IF max_time # NoneVal /\ heap[1].time > max_time
         THEN max_time ELSE heap[1].time
    ELSE max_time

\* A blocked self._queue.get returns: an item is on the queue, or the
\* timeout has elapsed.
WakeUp ==
    /\ wait.active
    /\ \/ queue # <<>>
       \/ wait.until_time # NoneVal /\ now >= wait.until_time

\* One round of the loop of process_events: every inbound item is moved to
\* the heap by calls of _wait_on_queue() (until_time 0); if the head of the
\* heap is due it is popped and processed, otherwise process_events
\* returns.
process_events ==
    /\ connected
    /\ ~wait.active
    /\ LET heap == wait_on_queue(scheduled_events, queue)
       IN IF queue_get(0, now).block
          THEN /\ scheduled_events' = heap
               /\ wait' = Wait(TRUE, "process_events", NoneVal, NoneVal, 0, "none", FALSE,
                                NoneVal)
               /\ UNCHANGED <<next_id, node, iface, devices, device_endpoint,
                              command_queue_set, step, seq_run>>
          ELSE IF heap # <<>> /\ is_due(heap[1].time, now)
          THEN LET popped == heappop(heap)
                   result == process_event(popped.item,
                                           [EngineState EXCEPT !.scheduled_events = popped.heap],
                                           now)
               IN /\ scheduled_events' = result.state.scheduled_events
                  /\ next_id' = result.state.next_id
                  /\ node' = result.state.node
                  /\ iface' = result.state.iface
                  /\ devices' = result.state.devices
                  /\ device_endpoint' = result.state.device_endpoint
                  /\ command_queue_set' = result.state.command_queue_set
                  /\ step' = Step(popped.item.type, popped.item, step.item,
                                  IF step.item = NoItem THEN step.earlier
                                  ELSE step.earlier \cup {step.item.id}, result,
                                  node.fresh, devices)
                  /\ seq_run' = seq_run_after(seq_run, result.published)
                  /\ wait' = wait
          ELSE /\ queue # <<>>
               /\ scheduled_events' = heap
               /\ UNCHANGED <<next_id, node, iface, devices, device_endpoint,
                              command_queue_set, step, seq_run, wait>>
    /\ queue' = <<>>
    /\ UNCHANGED <<connected, connect_log, last_nbirth, will, scope_exit, now>>
    /\ UNCHANGED clientEndpointVars
    /\ UNCHANGED clientVars
    /\ UNCHANGED organizerVars
    /\ UNCHANGED registrationVars
    /\ UNCHANGED dispatchVars
    /\ UNCHANGED clientIfaceVars

\* wait_on_event(max_time): one call of _wait_on_queue(until_time).  An item
\* on the queue is moved to the heap at once; otherwise the call returns
\* False at once when the get does not block, and blocks when it does.
wait_on_event(max_times) ==
    /\ ~wait.active
    /\ \E max_time \in max_times :
        LET until_time == wait_until_time(scheduled_events, max_time)
            get == queue_get(until_time, now)
            head_time == IF scheduled_events # <<>> THEN scheduled_events[1].time
                         ELSE NoneVal
        IN IF queue # <<>>
           THEN /\ scheduled_events' = heappush(scheduled_events, Head(queue))
                /\ queue' = Tail(queue)
                /\ wait' = Wait(FALSE, "wait_on_event", max_time, head_time, until_time, "True",
                                TRUE, now)
           ELSE /\ wait' = Wait(get.block, "wait_on_event", max_time, head_time, until_time,
                                IF get.block THEN "none" ELSE "False", FALSE,
                                IF get.block THEN NoneVal ELSE now)
                /\ UNCHANGED <<queue, scheduled_events>>
    /\ UNCHANGED <<connected, connect_log, last_nbirth, will, scope_exit, now, next_id, node,
                   iface, devices, device_endpoint, command_queue_set, step, seq_run>>
    /\ UNCHANGED clientEndpointVars
    /\ UNCHANGED clientVars
    /\ UNCHANGED organizerVars
    /\ UNCHANGED registrationVars
    /\ UNCHANGED dispatchVars
    /\ UNCHANGED clientIfaceVars

\* The blocked get of _wait_on_queue returns: with the first item of the
\* queue, which is pushed on the heap, or with Empty after the timeout.
wait_return ==
    /\ WakeUp
    /\ IF queue # <<>>
       THEN /\ scheduled_events' = heappush(scheduled_events, Head(queue))
            /\ queue' = Tail(queue)
            /\ wait' = [wait EXCEPT !.active = FALSE, !.result = "True", !.moved = TRUE,
                                    !.returned_at = now]
       ELSE /\ wait' = [wait EXCEPT !.active = FALSE, !.result = "False",
                                    !.returned_at = now]
            /\ UNCHANGED <<queue, scheduled_events>>
    /\ UNCHANGED <<connected, connect_log, last_nbirth, will, scope_exit, now, next_id, node,
                   iface, devices, device_endpoint, command_queue_set, step, seq_run>>
    /\ UNCHANGED clientEndpointVars
    /\ UNCHANGED clientVars
    /\ UNCHANGED organizerVars
    /\ UNCHANGED registrationVars
    /\ UNCHANGED dispatchVars
    /\ UNCHANGED clientIfaceVars

\* Time passes; a blocked get that can return does so first.
tick ==
    /\ now < MaxTime
    /\ ~WakeUp
    /\ now' = now + 1
    /\ UNCHANGED <<connected, connect_log, last_nbirth, will, scope_exit, wait, queue,
                   scheduled_events, next_id, node, iface, devices, device_endpoint,
                   command_queue_set, step, seq_run>>
    /\ UNCHANGED clientEndpointVars
    /\ UNCHANGED clientVars
    /\ UNCHANGED organizerVars
    /\ UNCHANGED registrationVars
    /\ UNCHANGED dispatchVars
    /\ UNCHANGED clientIfaceVars

NoStep == Step("none", NoItem, NoItem, {}, Result(<<>>, <<>>, FALSE, NoInfo), TRUE,
               DeviceState(FALSE, NoDevice, 0, FALSE, FALSE))

\* The timers a node class declares: none, or one with period TimerPeriod.
NodeTimers(funcs) == {<<>>} \cup {<<f>> : f \in funcs}

\* ServerEngine.__init__ with _register_node: the node's command queue is
\* registered, which puts one repeating ScheduleQueueItem per declared timer
\* on the queue; the interface gets the node's initial metrics and the
\* node's list of updated metrics is cleared.
InitServerEngine(timers) ==
    /\ connected = FALSE
    /\ connect_log = <<>>
    /\ last_nbirth = NoneVal
    /\ scope_exit = NoExit
    /\ wait = NoWait
    /\ will = [payload |-> Message("none", NoneVal, FALSE, NoneVal, {}, TRUE),
               qos |-> 0, retain |-> FALSE]
    /\ now = StartTime
    /\ queue = [i \in 1 .. Len(timers) |->
                   QueueItem(i, "Schedule", StartTime, timers[i], FALSE, TimerPeriod,
                             NoDevice, StartTime, 0)]
    /\ scheduled_events = <<>>
    /\ next_id = Len(timers) + 1
    /\ node = NodeState(0, Absent, 0, TRUE)
    /\ iface = InterfaceState(0, 0, FALSE, Absent, FALSE, Absent)
    /\ devices = DeviceState(FALSE, NoDevice, 0, FALSE, FALSE)
    /\ device_endpoint = NodeState(0, Absent, 0, TRUE)
    /\ command_queue_set = [device \in DeviceObjects |-> FALSE]
    /\ step = NoStep
    /\ seq_run = [last |-> NoneVal, contiguous |-> TRUE, count |-> 0]

(***************************************************************************)
(* PART 4.  MetricOrganizer (tahu_interface.py)                            *)
(***************************************************************************)

\* The metric names and datatypes the callers of the organizer use.
OrganizerNames == {"a", "b"}

OrganizerDatatypes == {"Int64", "String"}

\* Payload.Metric as the organizer reads it: the name and alias fields
\* (unset: NoMetricName, None) and the datatype.
OrganizerMetric(name, alias, datatype) ==
    [name |-> name, alias |-> alias, datatype |-> datatype]

\* The metrics given to set_initial_metrics and set: named ones, one with
\* an alias only, and one with neither name nor alias.
OrganizerInputs ==
    {OrganizerMetric(n, NoneVal, t) : n \in OrganizerNames, t \in OrganizerDatatypes}
        \cup {OrganizerMetric(NoMetricName, 0, "Int64"),
              OrganizerMetric(NoMetricName, NoneVal, "Int64")}

\* MetricOrganizer.__init__.  _metrics maps a name to the metric (here its
\* datatype); _metric_names_to_aliases is a dict, kept as its items in the
\* order of insertion.
MetricOrganizer(metrics, uncommitted_metrics, next_alias, metric_names_to_aliases, committed) ==
    [metrics |-> metrics, uncommitted_metrics |-> uncommitted_metrics,
     next_alias |-> next_alias, metric_names_to_aliases |-> metric_names_to_aliases,
     committed |-> committed]

NewMetricOrganizer == MetricOrganizer(EmptyDict, <<>>, 0, <<>>, FALSE)

\* The keys of _metric_names_to_aliases.
AliasedNames(org) ==
    {org.metric_names_to_aliases[i][1] : i \in DOMAIN org.metric_names_to_aliases}

\* What a lookup returns: the value, or that it raised.
Lookup(raised, value) == [raised |-> raised, value |-> value]

\* get_alias: TahuInterfaceError for a name that has no alias.
get_alias(org, name) ==
    IF name \notin AliasedNames(org) THEN Lookup(TRUE, NoneVal)
    ELSE LET i == CHOOSE j \in DOMAIN org.metric_names_to_aliases :
                      org.metric_names_to_aliases[j][1] = name
         IN Lookup(FALSE, org.metric_names_to_aliases[i][2])

\* _metric_aliases_to_names: {v: k for k, v in items}; of two names with one
\* alias the one inserted later stays.
metric_aliases_to_names(org) ==
    LET items == org.metric_names_to_aliases
        Last(alias) == CHOOSE i \in DOMAIN items :
                          /\ items[i][2] = alias
                          /\ \A j \in DOMAIN items : items[j][2] = alias => j <= i
    IN [alias \in {items[i][2] : i \in DOMAIN items} |-> items[Last(alias)][1]]

\* get_name: TahuInterfaceError for an alias that has no name.
get_name(org, alias) ==
    LET inv_map == metric_aliases_to_names(org)
    IN IF alias \notin DOMAIN inv_map THEN Lookup(TRUE, NoMetricName)
       ELSE Lookup(FALSE, inv_map[alias])

\* What a method of the organizer leaves: the organizer and whether the
\* method raised.
OrganizerResult(org, raised) == [org |-> org, raised |-> raised]

\* _add_metric that gives every new name the alias of the counter without
\* advancing the counter.
add_metric_same_alias(org, metric) ==
    IF metric.name = NoMetricName THEN OrganizerResult(org, TRUE)
    ELSE LET known == metric.name \in AliasedNames(org)
         IN OrganizerResult(
                [org EXCEPT
                    !.metric_names_to_aliases =
                        IF known THEN @ ELSE Append(@, <<metric.name, org.next_alias>>),
                    !.metrics = DictSet(@, metric.name, metric.datatype)],
                FALSE)

\* _add_metric: a name that has an alias keeps it, a new name gets
\* _next_alias, which is then advanced; the metric becomes the entry of its
\* name.  TahuInterfaceError for a metric without a name.
add_metric(org, metric) ==
    IF metric.name = NoMetricName THEN OrganizerResult(org, TRUE)
    ELSE LET known == metric.name \in AliasedNames(org)
         IN OrganizerResult(
                [org EXCEPT
                    !.metric_names_to_aliases =
                        IF known THEN @ ELSE Append(@, <<metric.name, org.next_alias>>),
                    !.next_alias = IF known THEN @ ELSE @ + 1,
                    !.metrics = DictSet(@, metric.name, metric.datatype)],
                FALSE)

\* set_initial_metrics from metric i on: the metrics before the one that
\* raises are added, and _committed is set only when none raised.
RECURSIVE set_initial_metrics(_, _, _)
set_initial_metrics(org, metrics, i) ==
    IF i > Len(metrics) THEN OrganizerResult([org EXCEPT !.committed = TRUE], FALSE)
    ELSE LET added == add_metric(org, metrics[i])
         IN IF added.raised THEN added
            ELSE set_initial_metrics(added.org, metrics, i + 1)

\* _validate_metric raises: a named metric needs an entry of its datatype,
\* one without a name needs an alias.
validate_metric_raises(org, metric) ==
    IF metric.name # NoMetricName
    THEN \/ metric.name \notin DOMAIN org.metrics
         \/ metric.datatype # org.metrics[metric.name]
    ELSE metric.alias = NoneVal

\* set(metric, add_if_missing): the metric is added first when asked for and
\* missing, validated, and appended to the uncommitted list.
organizer_set_metric(org, metric, add_if_missing) ==
    LET added == IF /\ add_if_missing
                    /\ metric.name # NoMetricName
                    /\ metric.name \notin DOMAIN org.metrics
                 THEN add_metric(org, metric).org
                 ELSE org
    IN IF validate_metric_raises(added, metric) THEN OrganizerResult(added, TRUE)
       ELSE OrganizerResult([added EXCEPT !.uncommitted_metrics = Append(@, metric)], FALSE)

\* delete(name): the entry and the uncommitted metrics of the name go; the
\* alias of the name stays.
organizer_delete_metric(org, name) ==
    IF name \notin DOMAIN org.metrics THEN OrganizerResult(org, FALSE)
    ELSE OrganizerResult(
            [org EXCEPT
                !.metrics = [k \in DOMAIN org.metrics \ {name} |-> org.metrics[k]],
                !.uncommitted_metrics = SelectSeq(@, LAMBDA metric : metric.name # name)],
            FALSE)

\* _commit_metrics from metric i on: every uncommitted metric becomes the
\* entry of metric.name, which is the empty string for a metric without a
\* name.
RECURSIVE commit_metrics(_, _)
commit_metrics(org, i) ==
    IF i > Len(org.uncommitted_metrics) THEN [org EXCEPT !.uncommitted_metrics = <<>>]
    ELSE commit_metrics(
            [org EXCEPT !.metrics = DictSet(@, org.uncommitted_metrics[i].name,
                                            org.uncommitted_metrics[i].datatype)],
            i + 1)

\* get_and_commit: _copy_with_alias looks up the alias of every named
\* uncommitted metric (KeyError when it has none), then the metrics are
\* committed.
get_and_commit(org) ==
    IF \E i \in DOMAIN org.uncommitted_metrics :
           /\ org.uncommitted_metrics[i].name # NoMetricName
           /\ org.uncommitted_metrics[i].name \notin AliasedNames(org)
    THEN OrganizerResult(org, TRUE)
    ELSE OrganizerResult(commit_metrics(org, 1), FALSE)

\* get_all: the metrics are committed, then every entry is copied with its
\* name and the alias of its name (KeyError when the name has none).
get_all(org) ==
    LET committed == commit_metrics(org, 1)
    IN OrganizerResult(committed, \E name \in DOMAIN committed.metrics :
                                      name \notin AliasedNames(committed))

\* The history record of a call: the method, whether it raised, the names
\* the births so far have carried (those set_initial_metrics added and those
\* get_all listed), the names delete has removed so far, and whether
\* get_all has returned the metrics of a birth yet.
OrganizerCall(op, raised, born, deleted, emitted) ==
    [op |-> op, raised |-> raised, born |-> born, deleted |-> deleted, emitted |-> emitted]

NoOrganizerCall == OrganizerCall("none", FALSE, {}, {}, FALSE)

\* The lists of initial metrics and the bound on the uncommitted list.
MaxInitialMetrics == 1
MaxUncommitted == 1

InitialMetricLists == ListsOf(OrganizerInputs, MaxInitialMetrics)

organizer_set_initial_metrics ==
    /\ \E metrics \in InitialMetricLists :
        LET res == set_initial_metrics(organizer, metrics, 1)
        IN /\ organizer' = res.org
           /\ organizer_call' =
                OrganizerCall("set_initial_metrics", res.raised,
                              organizer_call.born
                                  \cup {metrics[i].name : i \in
                                          {j \in DOMAIN metrics :
                                              \A k \in 1 .. j : metrics[k].name # NoMetricName}},
                              organizer_call.deleted, organizer_call.emitted)
    /\ UNCHANGED clientEndpointVars
    /\ UNCHANGED clientVars
    /\ UNCHANGED engineVars
    /\ UNCHANGED registrationVars
    /\ UNCHANGED dispatchVars
    /\ UNCHANGED clientIfaceVars

organizer_set ==
    /\ Len(organizer.uncommitted_metrics) < MaxUncommitted
    /\ \E metric \in OrganizerInputs, add_if_missing \in BOOLEAN :
        LET res == organizer_set_metric(organizer, metric, add_if_missing)
        IN /\ organizer' = res.org
           /\ organizer_call' = OrganizerCall("set", res.raised, organizer_call.born,
                                              organizer_call.deleted,
                                              organizer_call.emitted)
    /\ UNCHANGED clientEndpointVars
    /\ UNCHANGED clientVars
    /\ UNCHANGED engineVars
    /\ UNCHANGED registrationVars
    /\ UNCHANGED dispatchVars
    /\ UNCHANGED clientIfaceVars

organizer_delete ==
    /\ \E name \in OrganizerNames :
        LET res == organizer_delete_metric(organizer, name)
        IN /\ organizer' = res.org
           /\ organizer_call' =
                OrganizerCall("delete", res.raised, organizer_call.born,
                              organizer_call.deleted
                                  \cup (DOMAIN organizer.metrics \ DOMAIN res.org.metrics),
                              organizer_call.emitted)
    /\ UNCHANGED clientEndpointVars
    /\ UNCHANGED clientVars
    /\ UNCHANGED engineVars
    /\ UNCHANGED registrationVars
    /\ UNCHANGED dispatchVars
    /\ UNCHANGED clientIfaceVars

organizer_get_and_commit ==
    /\ LET res == get_and_commit(organizer)
       IN /\ organizer' = res.org
          /\ organizer_call' = OrganizerCall("get_and_commit", res.raised,
                                             organizer_call.born, organizer_call.deleted,
                                             organizer_call.emitted)
    /\ UNCHANGED clientEndpointVars
    /\ UNCHANGED clientVars
    /\ UNCHANGED engineVars
    /\ UNCHANGED registrationVars
    /\ UNCHANGED dispatchVars
    /\ UNCHANGED clientIfaceVars

organizer_get_all ==
    /\ LET res == get_all(organizer)
       IN /\ organizer' = res.org
          /\ organizer_call' =
                OrganizerCall("get_all", res.raised,
                              IF res.raised THEN organizer_call.born
                              ELSE organizer_call.born \cup DOMAIN res.org.metrics,
                              organizer_call.deleted,
                              organizer_call.emitted \/ ~res.raised)
    /\ UNCHANGED clientEndpointVars
    /\ UNCHANGED clientVars
    /\ UNCHANGED engineVars
    /\ UNCHANGED registrationVars
    /\ UNCHANGED dispatchVars
    /\ UNCHANGED clientIfaceVars

InitOrganizer ==
    /\ organizer = NewMetricOrganizer
    /\ organizer_call = NoOrganizerCall

(***************************************************************************)
(* PART 5.  The command queue of an endpoint and the threads that use it   *)
(* (server_endpoint_base.py)                                               *)
(***************************************************************************)

\* The threads that call icpw_enqueue_command, one action each; the engine
\* thread calls icpw_register_command_queue.
MaxEnqueuers == 3
Enqueuers == 1 .. MaxEnqueuers
EngineThread == 0

\* The ScheduleQueueItem of the timer the endpoint class declares.
TimerAction == MaxEnqueuers + 1

\* The calls of icpw_register_command_queue the engine thread makes.
MaxRegisterCalls == 2

\* The lock is free.
NoThread == -2

\* The endpoint's _command_queue (set or None), _command_queue_lock (its
\* holder), _command_queue_buffer (None when has_buffer is false, else the
\* list buffer), the items put on the queue in order, where each thread is,
\* the index of the flush loop, the number of calls of
\* icpw_register_command_queue begun, and (history) the way each action
\* went: "unlocked", "locked", "buffer" or "none", and (history) the buffer
\* as it was when the registration had moved all of it.
Registration(command_queue, lock, has_buffer, buffer, put, pc, flush, calls, via, flushed) ==
    [command_queue |-> command_queue, lock |-> lock, has_buffer |-> has_buffer,
     buffer |-> buffer, put |-> put, pc |-> pc, flush |-> flush, calls |-> calls,
     via |-> via, flushed |-> flushed]

\* ServerEndpointBase.__init__: no queue, an empty buffer.
NewRegistration ==
    Registration(FALSE, NoThread, TRUE, <<>>, <<>>,
                 [t \in Enqueuers \cup {EngineThread} |-> "start"], 1, 0,
                 [t \in Enqueuers \cup {TimerAction} |-> "none"], <<>>)

\* How often an action is on the queue.
Count(seq, x) == Cardinality({i \in DOMAIN seq : seq[i] = x})

\* The locked branch of icpw_enqueue_command without the second look at
\* _command_queue: the action is appended to the buffer, which raises
\* AttributeError once the buffer is None.
enqueue_under_lock_no_recheck(reg, action) ==
    IF ~reg.has_buffer THEN reg
    ELSE [reg EXCEPT !.buffer = Append(@, action), !.via[action] = "buffer"]

\* The locked branch of icpw_enqueue_command: the action is put on the
\* queue when there is one by now, else appended to the buffer.
enqueue_under_lock(reg, action) ==
    IF reg.command_queue
    THEN [reg EXCEPT !.put = Append(@, action), !.via[action] = "locked"]
    ELSE IF ~reg.has_buffer THEN reg
    ELSE [reg EXCEPT !.buffer = Append(@, action), !.via[action] = "buffer"]

\* icpw_enqueue_command, the look at _command_queue outside the lock.
enqueue_check ==
    /\ \E t \in Enqueuers :
        /\ registration.pc[t] = "start"
        /\ registration' = [registration EXCEPT
                               !.pc[t] = IF registration.command_queue
                                         THEN "put" ELSE "acquire"]
    /\ UNCHANGED clientEndpointVars
    /\ UNCHANGED clientVars
    /\ UNCHANGED engineVars
    /\ UNCHANGED organizerVars
    /\ UNCHANGED dispatchVars
    /\ UNCHANGED clientIfaceVars

\* icpw_enqueue_command, the put outside the lock.
enqueue_put ==
    /\ \E t \in Enqueuers :
        /\ registration.pc[t] = "put"
        /\ registration' = [registration EXCEPT !.put = Append(@, t),
                                                !.via[t] = "unlocked",
                                                !.pc[t] = "done"]
    /\ UNCHANGED clientEndpointVars
    /\ UNCHANGED clientVars
    /\ UNCHANGED engineVars
    /\ UNCHANGED organizerVars
    /\ UNCHANGED dispatchVars
    /\ UNCHANGED clientIfaceVars

\* icpw_enqueue_command, entering the with block.
enqueue_acquire ==
    /\ registration.lock = NoThread
    /\ \E t \in Enqueuers :
        /\ registration.pc[t] = "acquire"
        /\ registration' = [registration EXCEPT !.lock = t, !.pc[t] = "locked"]
    /\ UNCHANGED clientEndpointVars
    /\ UNCHANGED clientVars
    /\ UNCHANGED engineVars
    /\ UNCHANGED organizerVars
    /\ UNCHANGED dispatchVars
    /\ UNCHANGED clientIfaceVars

\* icpw_enqueue_command, the with block and leaving it.
enqueue_locked ==
    /\ \E t \in Enqueuers :
        /\ registration.pc[t] = "locked"
        /\ registration' = [enqueue_under_lock(registration, t) EXCEPT
                               !.lock = NoThread, !.pc[t] = "done"]
    /\ UNCHANGED clientEndpointVars
    /\ UNCHANGED clientVars
    /\ UNCHANGED engineVars
    /\ UNCHANGED organizerVars
    /\ UNCHANGED dispatchVars
    /\ UNCHANGED clientIfaceVars

\* icpw_register_command_queue, entering the with block.
register_acquire ==
    /\ registration.lock = NoThread
    /\ registration.pc[EngineThread] = "start"
    /\ registration.calls < MaxRegisterCalls
    /\ registration' = [registration EXCEPT !.lock = EngineThread,
                                            !.pc[EngineThread] = "locked",
                                            !.calls = @ + 1]
    /\ UNCHANGED clientEndpointVars
    /\ UNCHANGED clientVars
    /\ UNCHANGED engineVars
    /\ UNCHANGED organizerVars
    /\ UNCHANGED dispatchVars
    /\ UNCHANGED clientIfaceVars

\* icpw_register_command_queue, the check and the assignment: RuntimeError
\* (which leaves the with block) when the queue is set already.
register_assign ==
    /\ registration.pc[EngineThread] = "locked"
    /\ registration' =
        IF registration.command_queue
        THEN [registration EXCEPT !.lock = NoThread, !.pc[EngineThread] = "raised"]
        ELSE [registration EXCEPT !.command_queue = TRUE, !.flush = 1,
                                  !.pc[EngineThread] = "flush"]
    /\ UNCHANGED clientEndpointVars
    /\ UNCHANGED clientVars
    /\ UNCHANGED engineVars
    /\ UNCHANGED organizerVars
    /\ UNCHANGED dispatchVars
    /\ UNCHANGED clientIfaceVars

\* A loop over the buffer that takes the items from the end.
flush_item_from_end(reg) ==
    [reg EXCEPT !.put = Append(@, reg.buffer[Len(reg.buffer) + 1 - reg.flush]),
                !.flush = @ + 1]

\* for item in self._command_queue_buffer: self._command_queue.put(item)
flush_item(reg) ==
    [reg EXCEPT !.put = Append(@, reg.buffer[reg.flush]), !.flush = @ + 1]

\* icpw_register_command_queue, one round of the loop over the buffer, and
\* after the last one the buffer is set to None and the with block is left.
register_flush ==
    /\ registration.pc[EngineThread] = "flush"
    /\ registration' =
        IF registration.flush <= Len(registration.buffer)
        THEN flush_item(registration)
        ELSE [registration EXCEPT !.has_buffer = FALSE, !.buffer = <<>>, !.lock = NoThread,
                                  !.flushed = registration.buffer,
                                  !.pc[EngineThread] = "timers"]
    /\ UNCHANGED clientEndpointVars
    /\ UNCHANGED clientVars
    /\ UNCHANGED engineVars
    /\ UNCHANGED organizerVars
    /\ UNCHANGED dispatchVars
    /\ UNCHANGED clientIfaceVars

\* icpw_register_command_queue, the loop over the timers: the item of the
\* timer goes through icpw_enqueue_command, which finds the queue set.  The
\* engine thread is then free to call the method again.
register_timers ==
    /\ registration.pc[EngineThread] = "timers"
    /\ registration' = [registration EXCEPT !.put = Append(@, TimerAction),
                                            !.via[TimerAction] = "unlocked",
                                            !.pc[EngineThread] = "start"]
    /\ UNCHANGED clientEndpointVars
    /\ UNCHANGED clientVars
    /\ UNCHANGED engineVars
    /\ UNCHANGED organizerVars
    /\ UNCHANGED dispatchVars
    /\ UNCHANGED clientIfaceVars

InitRegistration == registration = NewRegistration

(***************************************************************************)
(* PART 6.  The lock of the client's table and the user callbacks          *)
(* (client.py: Locked, _route_message_to_user, monitor, get_endpoint_state)*)
(***************************************************************************)

\* The transport thread routes the messages and runs the callbacks; the
\* user thread calls monitor.  What a callback does: it returns at once, it
\* calls monitor, or it calls get_endpoint_state; None is the callback of a
\* subscription made by watch.
CallbackKinds == {"returns", "monitor", "query", "None"}

\* Messages routed and subscriptions made in all.
MaxRoutedMessages == 2
MaxSubscriptions == 3

\* Locked.__enter__: RLock.acquire by a thread that may take the lock.
lock_acquire(d, thread) == [d EXCEPT !.owner = thread, !.count = @ + 1]

\* RLock.acquire returns at once for the owner and when nobody owns the lock.
lock_is_free_for(d, thread) == d.owner \in {"none", thread}

\* The with block of _route_message_to_user left with the lock still held.
lock_release_kept(d) == d

\* Locked.__exit__: RLock.release.
lock_release(d) ==
    [d EXCEPT !.count = @ - 1, !.owner = IF d.count = 1 THEN "none" ELSE @]

\* Locked.__init__ and InternalClientData.__init__ (one event), and the
\* threads at rest.
NewDispatch ==
    [owner |-> "none", count |-> 0, subscriptions |-> <<>>,
     pc |-> "idle", snapshot |-> <<>>, pos |-> 0, called |-> <<>>,
     held_at_call |-> FALSE, user_pc |-> "idle", routed |-> 0]

\* _route_message_to_user: with self._client_data as data (enter).
route_enter ==
    /\ dispatch.pc = "idle"
    /\ dispatch.routed < MaxRoutedMessages
    /\ lock_is_free_for(dispatch, "transport")
    /\ dispatch' = [lock_acquire(dispatch, "transport") EXCEPT !.pc = "copy"]
    /\ UNCHANGED clientEndpointVars
    /\ UNCHANGED clientVars
    /\ UNCHANGED engineVars
    /\ UNCHANGED organizerVars
    /\ UNCHANGED registrationVars
    /\ UNCHANGED clientIfaceVars

\* _route_message_to_user: subscriptions = list(...) and the end of the with
\* block.
route_copy ==
    /\ dispatch.pc = "copy"
    /\ dispatch' = [lock_release(dispatch) EXCEPT
                        !.snapshot = dispatch.subscriptions,
                        !.pos = 1, !.called = <<>>, !.pc = "loop"]
    /\ UNCHANGED clientEndpointVars
    /\ UNCHANGED clientVars
    /\ UNCHANGED engineVars
    /\ UNCHANGED organizerVars
    /\ UNCHANGED registrationVars
    /\ UNCHANGED clientIfaceVars

\* One round of the loop over the copy: sub.call_if.  A callback that calls
\* monitor or get_endpoint_state comes to the with statement of that method.
route_call_if ==
    /\ dispatch.pc = "loop"
    /\ dispatch.pos <= Len(dispatch.snapshot)
    /\ LET callback == dispatch.snapshot[dispatch.pos]
       IN dispatch' =
            IF callback = "None"
            THEN [dispatch EXCEPT !.pos = @ + 1]
            ELSE [dispatch EXCEPT
                      !.called = Append(@, dispatch.pos),
                      !.held_at_call = @ \/ dispatch.owner = "transport",
                      !.pos = IF callback = "returns" THEN @ + 1 ELSE @,
                      !.pc = IF callback = "returns" THEN "loop" ELSE "callback"]
    /\ UNCHANGED clientEndpointVars
    /\ UNCHANGED clientVars
    /\ UNCHANGED engineVars
    /\ UNCHANGED organizerVars
    /\ UNCHANGED registrationVars
    /\ UNCHANGED clientIfaceVars

\* Inside a callback, _subscribe_user_to or get_endpoint_state: with
\* self._client_data as data (enter).
callback_enter ==
    /\ dispatch.pc = "callback"
    /\ lock_is_free_for(dispatch, "transport")
    /\ dispatch' = [lock_acquire(dispatch, "transport") EXCEPT !.pc = "callback_locked"]
    /\ UNCHANGED clientEndpointVars
    /\ UNCHANGED clientVars
    /\ UNCHANGED engineVars
    /\ UNCHANGED organizerVars
    /\ UNCHANGED registrationVars
    /\ UNCHANGED clientIfaceVars

\* Inside a callback, the body of that with block and its end:
\* _subscribe_user_to appends a Subscription, get_endpoint_state reads the
\* table; the callback returns to the loop.
callback_exit ==
    /\ dispatch.pc = "callback_locked"
    /\ \E callback \in CallbackKinds :
        LET appends == /\ dispatch.snapshot[dispatch.pos] = "monitor"
                       /\ Len(dispatch.subscriptions) < MaxSubscriptions
        IN dispatch' = [lock_release(dispatch) EXCEPT
                            !.subscriptions = IF appends THEN Append(@, callback) ELSE @,
                            !.pos = @ + 1, !.pc = "loop"]
    /\ UNCHANGED clientEndpointVars
    /\ UNCHANGED clientVars
    /\ UNCHANGED engineVars
    /\ UNCHANGED organizerVars
    /\ UNCHANGED registrationVars
    /\ UNCHANGED clientIfaceVars

\* _route_message_to_user returns when the loop is over.
route_return ==
    /\ dispatch.pc = "loop"
    /\ dispatch.pos > Len(dispatch.snapshot)
    /\ dispatch' = [dispatch EXCEPT !.pc = "idle", !.routed = @ + 1]
    /\ UNCHANGED clientEndpointVars
    /\ UNCHANGED clientVars
    /\ UNCHANGED engineVars
    /\ UNCHANGED organizerVars
    /\ UNCHANGED registrationVars
    /\ UNCHANGED clientIfaceVars

\* The user thread calls monitor: _subscribe_user_to comes to its with
\* statement and waits there while the transport thread owns the lock.
user_monitor ==
    /\ dispatch.user_pc = "idle"
    /\ Len(dispatch.subscriptions) < MaxSubscriptions
    /\ dispatch' = [dispatch EXCEPT !.user_pc = "waiting"]
    /\ UNCHANGED clientEndpointVars
    /\ UNCHANGED clientVars
    /\ UNCHANGED engineVars
    /\ UNCHANGED organizerVars
    /\ UNCHANGED registrationVars
    /\ UNCHANGED clientIfaceVars

\* _subscribe_user_to on the user thread: with self._client_data as data
\* (enter).
user_enter ==
    /\ dispatch.user_pc = "waiting"
    /\ lock_is_free_for(dispatch, "user")
    /\ dispatch' = [lock_acquire(dispatch, "user") EXCEPT !.user_pc = "locked"]
    /\ UNCHANGED clientEndpointVars
    /\ UNCHANGED clientVars
    /\ UNCHANGED engineVars
    /\ UNCHANGED organizerVars
    /\ UNCHANGED registrationVars
    /\ UNCHANGED clientIfaceVars

\* _subscribe_user_to on the user thread: the append and the end of the with
\* block.
user_exit ==
    /\ dispatch.user_pc = "locked"
    /\ \E callback \in CallbackKinds :
        dispatch' = [lock_release(dispatch) EXCEPT
                         !.subscriptions = IF Len(@) < MaxSubscriptions
                                           THEN Append(@, callback) ELSE @,
                         !.user_pc = "idle"]
    /\ UNCHANGED clientEndpointVars
    /\ UNCHANGED clientVars
    /\ UNCHANGED engineVars
    /\ UNCHANGED organizerVars
    /\ UNCHANGED registrationVars
    /\ UNCHANGED clientIfaceVars

InitDispatch == dispatch = NewDispatch

(***************************************************************************)
(* PART 7.  TahuClientInterface on its own (tahu_interface.py)             *)
(***************************************************************************)

\* conventions.make_command
make_command(base_name) == "command/" \o base_name

\* {metric.name: metric.alias for metric in birth.metrics}: the last metric
\* of a name gives its value, and an alias field that is not set reads as 0.
birth_aliases(metrics) ==
    [name \in {metrics[i].name : i \in DOMAIN metrics} |->
        LET last == CHOOSE i \in DOMAIN metrics :
                        /\ metrics[i].name = name
                        /\ \A j \in DOMAIN metrics : j > i => metrics[j].name # name
        IN IF metrics[last].alias = NoneVal THEN 0 ELSE metrics[last].alias]

\* The entry of _alias_map for an endpoint name: absent until a birth of
\* the endpoint is registered.
AliasEntry(registered, aliases) == [registered |-> registered, aliases |-> aliases]

\* _set_name_or_alias: the alias and name fields of the metric of the
\* command payload.
set_name_or_alias(entry, cmd) ==
    IF entry.registered /\ cmd \in DOMAIN entry.aliases
    THEN [name |-> NoMetricName, alias |-> entry.aliases[cmd]]
    ELSE [name |-> make_command(cmd), alias |-> NoneVal]

\* The births registered: the command do with an alias, with another alias,
\* beside a metric x, beside a metric that is called do as well, and without
\* an alias.
CommandBirthLists ==
    {<<TahuMetric(make_command("do"), 2, 0, FALSE)>>,
     <<TahuMetric("x", KnownAlias, 0, FALSE), TahuMetric(make_command("do"), 3, 0, FALSE)>>,
     <<TahuMetric("do", 4, 0, FALSE), TahuMetric(make_command("do"), 2, 0, FALSE)>>,
     <<TahuMetric("x", KnownAlias, 0, FALSE), TahuMetric(make_command("do"), NoneVal, 0, FALSE)>>}

\* The cmd arguments: call_command gives the name of the command without
\* the prefix, set_endpoint_metric the name of the metric.
CommandArguments == {"do", "x"}

NoCommandCall ==
    [made |-> FALSE, endpoint |-> NodeN1, cmd |-> "do",
     entry |-> AliasEntry(FALSE, EmptyDict),
     metric |-> [name |-> NoMetricName, alias |-> NoneVal]]

\* TahuClientInterface.__init__
NewClientInterface ==
    [alias_map |-> [name \in EndpointNames |-> AliasEntry(FALSE, EmptyDict)],
     call |-> NoCommandCall]

\* TahuClientInterface.register_nbirth and register_dbirth
register_birth ==
    /\ \E name \in EndpointNames, metrics \in CommandBirthLists :
        client_iface' = [client_iface EXCEPT
                            !.alias_map[name] = AliasEntry(TRUE, birth_aliases(metrics))]
    /\ UNCHANGED clientEndpointVars
    /\ UNCHANGED clientVars
    /\ UNCHANGED engineVars
    /\ UNCHANGED organizerVars
    /\ UNCHANGED registrationVars
    /\ UNCHANGED dispatchVars

\* TahuClientInterface.new_ncmd and new_dcmd
new_cmd ==
    /\ \E name \in EndpointNames, cmd \in CommandArguments :
        client_iface' = [client_iface EXCEPT
                            !.call = [made |-> TRUE, endpoint |-> name, cmd |-> cmd,
                                      entry |-> client_iface.alias_map[name],
                                      metric |-> set_name_or_alias(
                                                     client_iface.alias_map[name], cmd)]]
    /\ UNCHANGED clientEndpointVars
    /\ UNCHANGED clientVars
    /\ UNCHANGED engineVars
    /\ UNCHANGED organizerVars
    /\ UNCHANGED registrationVars
    /\ UNCHANGED dispatchVars

InitClientInterface == client_iface = NewClientInterface

(***************************************************************************)
(* Specifications                                                          *)
(***************************************************************************)

InitLiveness == InitClientEndpoint /\ InitClient /\ InitServerEngine(<<>>)
        /\ InitOrganizer /\ InitRegistration /\ InitDispatch /\ InitClientInterface

NextLiveness ==
    \/ update_from_tahu_birth
    \/ update_from_tahu_death
    \/ on_birth
    \/ on_death

SpecLiveness == InitLiveness /\ [][NextLiveness]_vars

\* C2: while births and deaths alternate with matching bdSeq (each death the
\* bdSeq of the birth before it, each next birth that bdSeq + 1 mod 256), the
\* endpoint is online after every birth and offline after every death.
C2_OnlineAcrossLifetimes ==
    lifetime.conform =>
        /\ (lifetime.last = "birth" => is_online)
        /\ (lifetime.last = "death" => ~is_online)

\* C2 witness: the birth with bdSeq 0 that follows the death with bdSeq 255.
C2_WitnessWrap ==
    /\ lifetime.conform
    /\ lifetime.last = "birth"
    /\ last_birth_seq = 0
    /\ last_death_seq = 255
    /\ is_online

InitDedup == InitClientEndpoint /\ InitClient /\ InitServerEngine(<<>>)
        /\ InitOrganizer /\ InitRegistration /\ InitDispatch /\ InitClientInterface

NextDedup ==
    \/ monitor({Events})
    \/ on_message(Topics, ClientPayloads, {<<>>}, {<<>>})

SpecDedup == InitDedup /\ [][NextDedup]_vars

\* C3 as stated: each (timestamp, seq) fingerprint received on a topic
\* triggers a user callback at most once, however its client_steps interleave
\* with other messages.
C3_AtMostOncePerFingerprint == invoked_twice = {}

\* C3 amended: a delivery whose fingerprint is that of the last fingerprinted
\* message delivered on the same topic calls no user callback.
C3_NoCallbackOnRepeatOfLast ==
    (/\ delivery.outcome # "none"
     /\ has_fingerprint(delivery.payload)
     /\ delivery.previous = fingerprint_of(delivery.payload))
        => delivery.called = <<>>

\* C3 witness: the second delivery of a message whose first delivery called
\* a callback is dropped.
C3_WitnessRepeatDropped ==
    /\ delivery.outcome = "duplicate"
    /\ delivery.previous = fingerprint_of(delivery.payload)
    /\ \E key \in invoked_once :
        key[2] = delivery.topic /\ key[3] = fingerprint_of(delivery.payload)
    /\ invoked_twice = {}

InitScheduler ==
    /\ InitClientEndpoint
    /\ InitClient
    /\ \E timers \in NodeTimers({NoOp, SetXFail}) : InitServerEngine(timers)
    /\ InitOrganizer
    /\ InitRegistration /\ InitDispatch /\ InitClientInterface

NextScheduler ==
    \/ connect({NoneVal})
    \/ icpw_run_in(0 .. MaxDelay, {NoOp}, MaxScheduledItems)
    \/ process_events
    \/ tick

SpecScheduler == InitScheduler /\ [][NextScheduler]_vars

InitEngine == InitClientEndpoint /\ InitClient /\ InitServerEngine(<<>>)
        /\ InitOrganizer /\ InitRegistration /\ InitDispatch /\ InitClientInterface

\* The engine connects after a timed-out query or after a retained NBIRTH
\* with bdSeq 254.
EngineLastBdSeqs == {NoneVal, 254}

NextEngine ==
    \/ connect(EngineLastBdSeqs)
    \/ icpw_run_in({0}, RunInFuncs, MaxEngineItems)
    \/ on_ncmd(MaxEngineItems)
    \/ icpw_register_device(MaxEngineItems)
    \/ icpw_unregister_device(MaxEngineItems)
    \/ icpw_rebirth
    \/ process_events

SpecEngine == InitEngine /\ [][NextEngine]_vars

\* A node with a device receiving NCMD and DCMD messages.
InitCommands == InitClientEndpoint /\ InitClient /\ InitServerEngine(<<>>)
        /\ InitOrganizer /\ InitRegistration /\ InitDispatch /\ InitClientInterface

NextCommands ==
    \/ connect({NoneVal})
    \/ icpw_register_device(MaxEngineItems)
    \/ icpw_unregister_device(MaxEngineItems)
    \/ on_ncmd(MaxEngineItems)
    \/ on_dcmd
    \/ process_events

SpecCommands == InitCommands /\ [][NextCommands]_vars

\* A node with a device: the device is registered and unregistered, and
\* functions scheduled by the node and by the device run.
InitDevices == InitClientEndpoint /\ InitClient /\ InitServerEngine(<<>>)
        /\ InitOrganizer /\ InitRegistration /\ InitDispatch /\ InitClientInterface

NextDevices ==
    \/ connect({NoneVal})
    \/ icpw_register_device(MaxDeviceItems)
    \/ icpw_unregister_device(MaxDeviceItems)
    \/ icpw_run_in({0}, {SetX}, MaxDeviceItems)
    \/ icpw_run_in_device({SetX, AddY, DelY}, MaxDeviceItems)
    \/ process_events

SpecDevices == InitDevices /\ [][NextDevices]_vars

\* The engine thread alternates wait_on_event and process_events while the
\* application schedules functions and time passes.
MaxWaitItems == 3

MaxTimes == {NoneVal} \cup (StartTime .. MaxTime)

InitWait == InitClientEndpoint /\ InitClient /\ InitServerEngine(<<>>)
        /\ InitOrganizer /\ InitRegistration /\ InitDispatch /\ InitClientInterface

NextWait ==
    \/ connect({NoneVal})
    \/ icpw_run_in(0 .. MaxDelay, {NoOp}, MaxWaitItems)
    \/ wait_on_event(MaxTimes)
    \/ wait_return
    \/ process_events
    \/ tick

SpecWait == InitWait /\ [][NextWait]_vars

\* The life of one connection: connect, work inside the scope, and the end
\* of the scope.
InitConnection == InitClientEndpoint /\ InitClient /\ InitServerEngine(<<>>)
        /\ InitOrganizer /\ InitRegistration /\ InitDispatch /\ InitClientInterface

NextConnection ==
    \/ connect(LastBdSeqs)
    \/ icpw_run_in({0}, {NoOp, SetX, SetXFail}, MaxEngineItems)
    \/ process_events
    \/ exit_scope

SpecConnection == InitConnection /\ [][NextConnection]_vars

(***************************************************************************)
(* The claims about the server engine                                      *)
(***************************************************************************)

\* The messages of a type among those a step published.
PublishedOf(mtype) ==
    {i \in 1 .. Len(step.published) : step.published[i].message_type = mtype}

\* The position of a call in the log of connect (0 when it was not made).
PositionOf(call) ==
    IF \E i \in 1 .. Len(connect_log) : connect_log[i] = call
    THEN CHOOSE i \in 1 .. Len(connect_log) : connect_log[i] = call
    ELSE 0

\* C1 as stated: the seq values of the NBIRTH, DBIRTH, NDATA and DDATA
\* messages published by one engine form a contiguous run mod 256 from 0.
C1_SeqContiguousRun == seq_run.contiguous

\* C4 as stated: a Schedule item that added or deleted a node metric is
\* followed, in its own publication, by exactly one NBIRTH and no NDATA for
\* the node, and the fresh flag goes from false to true.
C4_BirthAfterDynamicMetric ==
    (step.type = "Schedule" /\ step.info.dynamic) =>
        /\ Cardinality(PublishedOf("NBIRTH")) = 1
        /\ PublishedOf("NDATA") = {}
        /\ step.info.stale
        /\ node.fresh

\* C4: the case in which the claim holds, an add answered by one NBIRTH
\* that lists the new metric.
C4_WitnessBirthAfterAdd ==
    /\ step.type = "Schedule"
    /\ step.info.dynamic
    /\ Len(step.published) = 1
    /\ step.published[1].message_type = "NBIRTH"
    /\ "y" \in step.published[1].metrics
    /\ node.fresh

\* C5 as stated: a RegisterDevice item for a device that was registered and
\* then unregistered succeeds, marks the device up, adds 1 mod 256 to its
\* bdSeq and publishes a DBIRTH.
C5_ReRegistration ==
    (step.type = "RegisterDevice" /\ step.devices_before.known
                                  /\ ~step.devices_before.is_up) =>
        /\ ~step.raised
        /\ devices.is_up
        /\ devices.bdSeq = (step.devices_before.bdSeq + 1) % ByteMod
        /\ PublishedOf("DBIRTH") # {}

\* C6 as stated: a Schedule item processed while the node's birth
\* certificate is fresh publishes exactly one NDATA if it changed a node
\* metric and none otherwise, and no NDATA has an empty metric list.
C6_OneNdataPerChangingItem ==
    (step.type = "Schedule" /\ ~step.info.stale) =>
        /\ Cardinality(PublishedOf("NDATA")) = (IF step.info.changed THEN 1 ELSE 0)
        /\ \A i \in PublishedOf("NDATA") : step.published[i].metrics # {}

\* C7: _publish_metric_updates runs exactly once after the body of every
\* Schedule item, also when the body raised.
C7_PublishOnceAfterBody ==
    step.type = "Schedule" => step.info.publish_calls = 1

\* C7 witness: a body that changed x and then raised; the change is
\* published as NDATA.
C7_WitnessPublishAfterFailure ==
    /\ step.type = "Schedule"
    /\ step.info.body_raised
    /\ step.info.publish_calls = 1
    /\ PublishedOf("NDATA") # {}

\* C8 as stated: items are processed in ascending scheduled time, and items
\* with equal time in the order in which they were inserted.
C8_AscendingTimeStableTies ==
    (step.type \notin {"none", "connect"} /\ step.prev.id # 0) =>
        \/ step.prev.time < step.item.time
        \/ step.prev.time = step.item.time /\ step.prev.id < step.item.id

\* C9: a repeating Schedule item whose function returned is reinserted, the
\* reinserted item has exactly the processed item's scheduled time plus its
\* period, whatever the time of processing, and so the k-th item of a chain
\* is scheduled at t0 + k * r.
C9_RepeatFromScheduledTime ==
    /\ (step.type = "Schedule" /\ step.item.repeat_sec # NoneVal /\ ~step.info.body_raised)
           => step.info.reinserted # NoItem
    /\ step.info.reinserted # NoItem
           => step.info.reinserted.time = step.item.time + step.item.repeat_sec
    /\ \A i \in 1 .. Len(scheduled_events) :
           scheduled_events[i].repeat_sec # NoneVal
               => scheduled_events[i].time =
                      scheduled_events[i].t0
                          + scheduled_events[i].k * scheduled_events[i].repeat_sec

\* C9 witness: a repeating item processed later than its scheduled time,
\* for the second time, and reinserted.
C9_WitnessLateRepeat ==
    /\ step.type = "Schedule"
    /\ step.item.k = 1
    /\ now > step.item.time
    /\ step.info.reinserted # NoItem
    /\ step.info.reinserted.time = step.item.t0 + 2 * step.item.repeat_sec

\* C10 as stated: connect discovers the bdSeq, installs the NDEATH as a
\* retained last will with QoS at least 1, connects, subscribes to NCMD and
\* attaches its handler, publishes the NBIRTH, and calls node.on_connect,
\* in this order.
C10_ConnectOrder ==
    connected =>
        /\ PositionOf("get_next_bdseq") < PositionOf("will_set")
        /\ will.payload.message_type = "NDEATH" /\ will.retain /\ will.qos >= 1
        /\ PositionOf("will_set") < PositionOf("connect")
        /\ PositionOf("connect") < PositionOf("subscribe NCMD")
        /\ PositionOf("connect") < PositionOf("message_callback_add NCMD")
        /\ PositionOf("subscribe NCMD") < PositionOf("publish NBIRTH")
        /\ PositionOf("message_callback_add NCMD") < PositionOf("publish NBIRTH")
        /\ PositionOf("publish NBIRTH") < PositionOf("node.on_connect")

\* C11: the bdSeq of a connection is the bdSeq of the retained NBIRTH found
\* at connect plus 1 mod 256 (0 after 255), and 0 when the query timed out;
\* the NBIRTH published by connect carries it.
C11_NextBdSeq ==
    connected =>
        /\ last_nbirth = NoneVal => iface.bdSeq = 0
        /\ last_nbirth = ByteMod - 1 => iface.bdSeq = 0
        /\ (last_nbirth # NoneVal /\ last_nbirth < ByteMod - 1)
               => iface.bdSeq = last_nbirth + 1
        /\ step.type = "connect" => step.published[1].bdSeq = iface.bdSeq

\* C11 witness: the retained NBIRTH carried 255 and the connection has
\* bdSeq 0.
C11_WitnessWrap ==
    /\ step.type = "connect"
    /\ last_nbirth = ByteMod - 1
    /\ step.published[1].message_type = "NBIRTH"
    /\ step.published[1].bdSeq = 0

ExitCount(call) ==
    Cardinality({i \in 1 .. Len(scope_exit.calls) : scope_exit.calls[i] = call})

ExitPosition(call) ==
    IF ExitCount(call) > 0
    THEN CHOOSE i \in 1 .. Len(scope_exit.calls) :
             /\ scope_exit.calls[i] = call
             /\ \A j \in 1 .. i - 1 : scope_exit.calls[j] # call
    ELSE 0

\* C13: when the scope of connect ends, on_disconnect runs exactly once on
\* every exit path; on_shutdown runs only on the shutdown path, there once,
\* and then before the transport is dropped and before on_disconnect.
C13_DisconnectHooks ==
    scope_exit.path # "none" =>
        /\ ExitCount("node.on_disconnect") = 1
        /\ ExitCount("node.on_shutdown") = (IF scope_exit.path = "shutdown" THEN 1 ELSE 0)
        /\ ExitCount("node.on_shutdown") = 1 =>
               /\ ExitPosition("node.on_shutdown") < ExitPosition("node.on_disconnect")
               /\ ExitCount("disconnect") = 1 =>
                      ExitPosition("node.on_shutdown") < ExitPosition("disconnect")
        /\ ExitCount("disconnect") = 1 =>
               ExitPosition("disconnect") < ExitPosition("node.on_disconnect")

\* C13 witness: the scope left by an exception other than the shutdown
\* condition, after work was done in it; on_disconnect ran, on_shutdown
\* did not.
C13_WitnessExceptionExit ==
    /\ scope_exit.path = "exception"
    /\ step.type = "Schedule"
    /\ ExitCount("node.on_disconnect") = 1
    /\ ExitCount("node.on_shutdown") = 0

\* C14: processing RegisterDevice for a device id not seen before creates
\* its state record marked up, subscribes to its DCMD topic, publishes a
\* retained DBIRTH that lists the metrics and commands of the device, and
\* then clears the retained DDEATH with an empty retained payload.
C14_RegisterUnseenDevice ==
    (step.type = "RegisterDevice" /\ ~step.devices_before.known) =>
        /\ ~step.raised
        /\ devices.known /\ devices.is_up /\ devices.device = step.item.device
        /\ devices.bdSeq = 0
        /\ devices.dcmd_subscribed
        /\ Len(step.published) = 2
        /\ step.published[1].message_type = "DBIRTH"
        /\ step.published[1].retain
        /\ ~step.published[1].empty
        /\ step.published[1].metrics = {"x", CommandName}
        /\ step.published[2].message_type = "DDEATH"
        /\ step.published[2].retain
        /\ step.published[2].empty

\* C14 witness: the first registration of the device, processed after a
\* node function was processed.
C14_WitnessFirstRegistration ==
    /\ step.type = "RegisterDevice"
    /\ ~step.devices_before.known
    /\ step.prev.type = "Schedule"
    /\ devices.is_up
    /\ Len(step.published) = 2

\* C15 as stated: processing UnregisterDevice for a registered device (its
\* state record is marked up) marks it down and publishes a DDEATH without
\* metrics, and the DCMD subscription of the device stays.
C15_UnregisterDevice ==
    (step.type = "UnregisterDevice" /\ step.devices_before.known
                                    /\ step.devices_before.is_up) =>
        /\ ~step.raised
        /\ devices.known /\ ~devices.is_up
        /\ devices.dcmd_subscribed
        /\ Len(step.published) = 1
        /\ step.published[1].message_type = "DDEATH"
        /\ ~step.published[1].empty
        /\ step.published[1].metrics = {}

\* C15 witness: a device whose registration succeeded is unregistered and
\* its DDEATH is published.
C15_WitnessDeviceDown ==
    /\ step.type = "UnregisterDevice"
    /\ step.devices_before.is_up
    /\ ~devices.is_up
    /\ PublishedOf("DDEATH") # {}

\* C16 as stated: no DDATA and no DBIRTH is published for a device that is
\* down.
C16_NothingForDownDevice ==
    (step.type = "Schedule" /\ devices.known /\ ~devices.is_up) =>
        /\ PublishedOf("DDATA") = {}
        /\ PublishedOf("DBIRTH") = {}

\* C17 as stated: after a dynamic add or delete of a metric on an up
\* device, the publication that follows has a DBIRTH and no DDATA for the
\* device, and the birth certificate of the device is fresh again.
C17_DeviceRebirth ==
    (step.type = "Schedule" /\ step.info.device.dynamic /\ devices.is_up) =>
        /\ Cardinality(PublishedOf("DBIRTH")) = 1
        /\ PublishedOf("DDATA") = {}
        /\ device_endpoint.fresh

\* C17: a case in which the claim holds, a delete on an up device answered
\* by a DBIRTH.
C17_WitnessBirthAfterDelete ==
    /\ step.type = "Schedule"
    /\ step.item.func = DelY
    /\ step.info.device.dynamic
    /\ devices.is_up
    /\ Cardinality(PublishedOf("DBIRTH")) = 1
    /\ device_endpoint.fresh

\* C18: process_events never blocks on the inbound queue; a round of it
\* moves every pending inbound item to the scheduled queue, processes the
\* head of the scheduled queue only when its time is at or before now, and
\* returns without processing only when the scheduled queue is empty or
\* its head is in the future.
C18_ProcessEventsNeverBlocks ==
    [][process_events =>
          /\ ~wait'.active
          /\ queue' = <<>>
          /\ step' # step =>
                 /\ is_due(step'.item.time, now)
                 /\ \A i \in 1 .. Len(queue) : step'.item.time <= queue[i].time
                 /\ \A i \in 1 .. Len(scheduled_events) :
                        step'.item.time <= scheduled_events[i].time
          /\ step' = step =>
                 /\ Len(scheduled_events') = Len(scheduled_events) + Len(queue)
                 /\ \/ scheduled_events' = <<>>
                    \/ scheduled_events'[1].time > now]_vars

\* C18 witness: process_events has processed an item and returned with the
\* head of the scheduled queue in the future.
C18_WitnessReturnedBeforeFutureHead ==
    /\ step.type = "Schedule"
    /\ ~wait.active
    /\ queue = <<>>
    /\ scheduled_events # <<>>
    /\ scheduled_events[1].time > now
    /\ step.item.time <= now

\* C19: wait_on_event blocks on the inbound queue only while no item has
\* arrived and neither the time of the earliest scheduled item nor the
\* given deadline has passed; it returns True exactly when it moved an item
\* to the scheduled queue, and False only at or after the earlier of the
\* two times.
C19_WaitOnEvent ==
    /\ (wait.active /\ scheduled_events # <<>>) => now <= scheduled_events[1].time
    /\ (wait.active /\ wait.max_time # NoneVal) => now <= wait.max_time
    /\ (wait.caller = "wait_on_event" /\ ~wait.active) =>
           /\ wait.result \in {"True", "False"}
           /\ wait.result = "True" <=> wait.moved
           /\ wait.result = "False" =>
                  /\ wait.until_time # NoneVal
                  /\ wait.returned_at >= wait.until_time
                  /\ wait.until_time \in {wait.head_time, wait.max_time}
                  /\ \A t \in {wait.head_time, wait.max_time} \ {NoneVal} :
                         wait.until_time <= t

\* C19 witness: a wait with a deadline later than the time of the earliest
\* scheduled item returned False at that item's time.
C19_WitnessWokenByScheduledHead ==
    /\ wait.caller = "wait_on_event"
    /\ ~wait.active
    /\ wait.result = "False"
    /\ wait.head_time # NoneVal
    /\ wait.max_time # NoneVal
    /\ wait.head_time < wait.max_time
    /\ wait.returned_at = wait.head_time
    /\ wait.returned_at > StartTime

(***************************************************************************)
(* Specification: the client receiving births, deaths and data messages    *)
(* with metrics.                                                           *)
(***************************************************************************)

InitClientData == InitClientEndpoint /\ InitClient /\ InitServerEngine(<<>>)
        /\ InitOrganizer /\ InitRegistration /\ InitDispatch /\ InitClientInterface

\* The messages of one node: empty payloads and payloads without a seq field
\* (the duplicate check is followed by SpecDedup).
NodeTopics == {Topic(base, NodeN1) : base \in MessageBases}

UnnumberedPayloads ==
    {ClientPayload(TRUE, NoneVal, NoneVal), ClientPayload(FALSE, TimeStampBase, NoneVal)}

NextClientData ==
    on_message(NodeTopics, UnnumberedPayloads, BirthMetricLists, DataMetricLists)

SpecClientData == InitClientData /\ [][NextClientData]_vars

\* C20: when processing an inbound client message fails, the message is
\* dropped and the in-memory endpoint table (its keys, and the metrics and
\* alias map of every entry) is exactly as it was before the message,
\* whatever the position in the metric list at which the failure occurs.
C20_FailedMessageLeavesTable ==
    delivery.outcome = "raised" =>
        /\ delivery.called = <<>>
        /\ endpoints = delivery.endpoints_before
        /\ endpoint_metrics = delivery.endpoint_metrics_before

\* C20 witness: a data message of two metrics for a known endpoint whose
\* first metric fails; nothing was applied and the table is as before.
C20_WitnessFirstMetricFails ==
    /\ delivery.outcome = "raised"
    /\ delivery.topic.base = "DATA"
    /\ delivery.topic.endpoint_name \in endpoints
    /\ Len(delivery.metrics) = 2
    /\ delivery.failed_at = 1
    /\ endpoint_metrics = delivery.endpoint_metrics_before

\* C21 as stated: when the handling of an NCMD or DCMD fails, the failure is
\* logged inside the handler and nothing is raised out of process_events
\* for that item.
C21_FailedCommandContained ==
    (step.type = "Schedule" /\ step.info.caught) => ~step.raised

\* C21 witness: a DCMD for a metric the device does not have was handled,
\* nothing was raised, and the item after it was processed in its turn.
C21_WitnessFailedDcmdThenNext ==
    /\ step.type = "Schedule"
    /\ step.prev.type = "Schedule"
    /\ step.prev.device = TopicDevice
    /\ step.prev.func = <<"fail">>
    /\ step.item.id = step.prev.id + 1
    /\ ~step.raised

(***************************************************************************)
(* Specification: set_endpoint_metric on an endpoint in any state of its   *)
(* liveness.                                                               *)
(***************************************************************************)

\* The sequence numbers of the last birth and death: an endpoint of the
\* table was built from a birth, so its birth sequence is never None.
SeqSamples == {0, 1, 255}

InitSetMetric ==
    /\ InitClient
    /\ InitServerEngine(<<>>)
    /\ InitOrganizer
    /\ InitRegistration /\ InitDispatch /\ InitClientInterface
    /\ in_table \in BOOLEAN
    /\ last_birth_seq \in (IF in_table THEN SeqSamples ELSE {NoneVal})
    /\ last_death_seq \in (IF in_table THEN SeqSamples \cup {NoneVal} ELSE {NoneVal})
    /\ lifetime = Lifetime("none", FALSE, 0, last_birth_seq, last_death_seq)

NextSetMetric == set_endpoint_metric

SpecSetMetric == InitSetMetric /\ [][NextSetMetric]_vars

\* C22: without force, set_endpoint_metric publishes the command only if
\* the endpoint is online, the metric is writable and the value is within
\* the Low and High limits, and otherwise raises and publishes nothing; with
\* force, on a known endpoint, every violation gives a warning and the
\* command is published.
C22_SetMetricChecks ==
    LET r == set_metric.result
        m == set_metric.metric
        within == /\ (m.low # NoneVal => set_metric.value >= m.low)
                  /\ (m.high # NoneVal => set_metric.value <= m.high)
        allowed == set_metric.online /\ m.writable /\ within
        count == (IF set_metric.online THEN 0 ELSE 1) + (IF m.writable THEN 0 ELSE 1)
                 + (IF within THEN 0 ELSE 1)
    IN set_metric.known =>
        /\ ~set_metric.force =>
              /\ r.published <=> allowed
              /\ r.raised <=> ~allowed
              /\ r.warnings = <<>>
        /\ set_metric.force =>
              /\ r.published
              /\ ~r.raised
              /\ Len(r.warnings) = count

\* C22 witness: a forced write above High to a read-only metric of an
\* offline endpoint was published with three warnings.
C22_WitnessForcedThroughThreeViolations ==
    /\ set_metric.known
    /\ set_metric.force
    /\ ~set_metric.online
    /\ ~set_metric.metric.writable
    /\ set_metric.value > set_metric.metric.high
    /\ set_metric.metric.high # NoneVal
    /\ set_metric.result.published
    /\ Len(set_metric.result.warnings) = 3

\* The names of the metrics a data message updated: those before the position
\* at which it failed, all of them when it did not fail.
UpdatedNames ==
    LET alias_map == delivery.endpoint_metrics_before[delivery.topic.endpoint_name].alias_map
        last == IF delivery.failed_at = 0 THEN Len(delivery.metrics)
                ELSE delivery.failed_at - 1
    IN IF delivery.topic.base = "DATA" /\ delivery.outcome \in {"routed", "raised"}
       THEN {get_metric_name(alias_map, delivery.metrics[i]) : i \in 1 .. last}
       ELSE {}

\* C23: after a birth of its endpoint was handled no metric of the endpoint
\* is fresh; a data message makes exactly the metrics it updates fresh; and
\* a fresh metric stays fresh under every message that is not a handled
\* birth of its endpoint.
C23_FreshSinceBirth ==
    LET name == delivery.topic.endpoint_name
        after == endpoint_metrics[name].metrics
        before == delivery.endpoint_metrics_before[name].metrics
        born == delivery.topic.base = "BIRTH" /\ delivery.outcome = "routed"
    IN delivery.outcome # "none" =>
        /\ born => \A n \in DOMAIN after : ~after[n].is_fresh
        /\ ~born =>
              /\ DOMAIN after = DOMAIN before
              /\ \A n \in DOMAIN after :
                    after[n].is_fresh <=> (before[n].is_fresh \/ n \in UpdatedNames)
        /\ \A other \in EndpointNames \ {name} :
              endpoint_metrics[other] = delivery.endpoint_metrics_before[other]

\* C23 witness: a data message made x fresh, which it was not since the
\* endpoint's birth, while y still shows its birth value.
C23_WitnessFreshAgainAfterRebirth ==
    LET name == delivery.topic.endpoint_name
        after == endpoint_metrics[name].metrics
        before == delivery.endpoint_metrics_before[name].metrics
    IN /\ delivery.topic.base = "DATA"
       /\ delivery.outcome = "routed"
       /\ DOMAIN after = {"x", "y"}
       /\ after["x"].is_fresh
       /\ ~before["x"].is_fresh
       /\ ~after["y"].is_fresh

(***************************************************************************)
(* Specification: the client receiving data messages for a record metric.  *)
(***************************************************************************)

InitRecordData == InitClientEndpoint /\ InitClient /\ InitServerEngine(<<>>)
        /\ InitOrganizer /\ InitRegistration /\ InitDispatch /\ InitClientInterface

NextRecordData ==
    on_message(NodeTopics, UnnumberedPayloads, RecordBirthLists, RecordDataLists)

SpecRecordData == InitRecordData /\ [][NextRecordData]_vars

\* C24: after a data message with a record metric was applied, every field
\* the message carries has the value of its last submetric and every field
\* absent from the message has the value it had before.
C24_PartialRecordUpdate ==
    LET name == delivery.topic.endpoint_name
        template == delivery.metrics[1].value
        after == endpoint_metrics[name].metrics["foo"].value
        before == delivery.endpoint_metrics_before[name].metrics["foo"].value
        Given(f) == {j \in 1 .. Len(template) : template[j].name = f}
    IN (delivery.topic.base = "DATA" /\ delivery.outcome = "routed") =>
        /\ DOMAIN after = DOMAIN before
        /\ \A f \in DOMAIN after :
              IF Given(f) = {} THEN after[f] = before[f]
              ELSE \E j \in Given(f) :
                      /\ \A k \in Given(f) : k <= j
                      /\ after[f] = template[j].value

\* C24 witness: a data message with only field x of foo was applied: x has
\* the new value and y the value of an earlier data message.
C24_WitnessOnlyXUpdated ==
    LET name == delivery.topic.endpoint_name
        after == endpoint_metrics[name].metrics["foo"].value
        before == delivery.endpoint_metrics_before[name].metrics["foo"].value
    IN /\ delivery.topic.base = "DATA"
       /\ delivery.outcome = "routed"
       /\ delivery.metrics[1].value = <<SubMetric("x", 5)>>
       /\ before = [x |-> 1, y |-> 4]
       /\ after = [x |-> 5, y |-> 4]

\* C29 as stated: when the body of a timer, trigger or run_in item raises,
\* no exception comes out of process_events, which goes on with the other
\* due items.
C29_BodyExceptionContained ==
    (/\ step.type = "Schedule"
     /\ ~step.item.guarded
     /\ step.info.body_raised)
        => ~step.raised

\* C29 witness: the body of a timer item raised while another item was due.
C29_WitnessRaisedWithDueItemLeft ==
    /\ step.type = "Schedule"
    /\ ~step.item.guarded
    /\ step.item.repeat_sec # NoneVal
    /\ step.info.body_raised
    /\ scheduled_events # <<>>
    /\ is_due(scheduled_events[1].time, now)

\* C30 as stated: every execution of a repeating Schedule item puts the item
\* for the next period on the heap, whether the body returned or raised.
C30_RepeatAfterEveryExecution ==
    (step.type = "Schedule" /\ step.item.repeat_sec # NoneVal) =>
        /\ step.info.reinserted # NoItem
        /\ step.info.reinserted.time = step.item.time + step.item.repeat_sec
        /\ \E i \in 1 .. Len(scheduled_events) :
              scheduled_events[i] = step.info.reinserted

\* C30 witness: the first execution of a timer whose body returned: the
\* item of the next period is on the heap.
C30_WitnessRepeatedAfterReturn ==
    /\ step.type = "Schedule"
    /\ step.item.repeat_sec # NoneVal
    /\ step.item.k = 0
    /\ ~step.info.body_raised
    /\ \E i \in 1 .. Len(scheduled_events) :
          /\ scheduled_events[i].k = 1
          /\ scheduled_events[i].time = step.item.time + TimerPeriod

(***************************************************************************)
(* Specification: commands arriving over the transport while time passes   *)
(* or stands still between two arrivals.                                   *)
(***************************************************************************)

\* The commands that arrive.
MaxInboundItems == 4

InitInbound == InitClientEndpoint /\ InitClient /\ InitServerEngine(<<>>)
        /\ InitOrganizer /\ InitRegistration /\ InitDispatch /\ InitClientInterface

NextInbound ==
    \/ connect({NoneVal})
    \/ on_ncmd(MaxInboundItems)
    \/ process_events
    \/ tick

SpecInbound == InitInbound /\ [][NextInbound]_vars

\* C27 as stated: of two commands the transport delivered, the one that
\* was enqueued first is handled first.
C27_CommandsInEnqueueOrder ==
    (/\ step.type = "Schedule"
     /\ step.item.guarded
     /\ step.prev.type = "Schedule"
     /\ step.prev.guarded)
        => step.prev.id < step.item.id

\* C27 witness: two commands that arrived at different times were handled
\* one after the other, in the order of their arrival.
C27_WitnessLaterCommandHandledLater ==
    /\ step.type = "Schedule"
    /\ step.item.guarded
    /\ step.prev.type = "Schedule"
    /\ step.prev.guarded
    /\ step.prev.time < step.item.time
    /\ step.prev.id < step.item.id

(***************************************************************************)
(* Specification: a MetricOrganizer under any sequence of its methods.     *)
(***************************************************************************)

InitMetricOrganizer == InitClientEndpoint /\ InitClient /\ InitServerEngine(<<>>)
        /\ InitOrganizer /\ InitRegistration /\ InitDispatch /\ InitClientInterface

NextMetricOrganizer ==
    \/ organizer_set_initial_metrics
    \/ organizer_set
    \/ organizer_delete
    \/ organizer_get_and_commit
    \/ organizer_get_all

SpecMetricOrganizer == InitMetricOrganizer /\ [][NextMetricOrganizer]_vars

\* C25: every name a birth has carried has an alias whose name is that
\* name, and every alias given out so far has a name whose alias is that
\* alias, whatever methods were called since.
C25_AliasNameRoundTrip ==
    /\ \A n \in organizer_call.born :
          /\ ~get_alias(organizer, n).raised
          /\ get_name(organizer, get_alias(organizer, n).value) = Lookup(FALSE, n)
    /\ \A a \in 0 .. organizer.next_alias - 1 :
          /\ ~get_name(organizer, a).raised
          /\ get_alias(organizer, get_name(organizer, a).value) = Lookup(FALSE, a)

\* C25 witness: both names were in a birth, one was deleted since and set
\* again, and the names have the aliases 0 and 1.
C25_WitnessDeletedAndSetAgain ==
    /\ organizer_call.op = "set"
    /\ ~organizer_call.raised
    /\ organizer_call.born = OrganizerNames
    /\ organizer_call.deleted # {}
    /\ organizer_call.deleted \subseteq DOMAIN organizer.metrics
    /\ {get_alias(organizer, n).value : n \in OrganizerNames} = {0, 1}

(***************************************************************************)
(* Specification: threads enqueueing commands while the engine registers   *)
(* the command queue.                                                      *)
(***************************************************************************)

InitRegistering == InitClientEndpoint /\ InitClient /\ InitServerEngine(<<>>)
        /\ InitOrganizer /\ InitRegistration /\ InitDispatch /\ InitClientInterface

NextRegistering ==
    \/ enqueue_check
    \/ enqueue_put
    \/ enqueue_acquire
    \/ enqueue_locked
    \/ register_acquire
    \/ register_assign
    \/ register_flush
    \/ register_timers

SpecRegistering == InitRegistering /\ [][NextRegistering]_vars

\* C28: no action is on the queue twice; an action whose call of
\* icpw_enqueue_command has returned is on the queue or still in the buffer,
\* and once the registration has left its with block it is on the queue and
\* there is no buffer any more.
C28_EnqueuedExactlyOnce ==
    LET reg == registration
        Buffered(t) == reg.has_buffer /\ \E i \in DOMAIN reg.buffer :
                                              i >= reg.flush /\ reg.buffer[i] = t
    IN /\ \A t \in Enqueuers \cup {TimerAction} : Count(reg.put, t) <= 1
       /\ \A t \in Enqueuers :
             reg.pc[t] = "done" =>
                (Count(reg.put, t) = 1) # Buffered(t)
       /\ reg.calls > 0 /\ reg.pc[EngineThread] \in {"timers", "start", "raised"} =>
             /\ ~reg.has_buffer
             /\ \A t \in Enqueuers : reg.pc[t] = "done" => Count(reg.put, t) = 1

\* C28 witness: every thread is done, one action went through the buffer
\* and one found the queue set only once it held the lock.
C28_WitnessBufferedAndLockedPut ==
    /\ \A t \in Enqueuers : registration.pc[t] = "done"
    /\ registration.pc[EngineThread] = "start"
    /\ registration.calls = 1
    /\ \E t \in Enqueuers : registration.via[t] = "buffer"
    /\ \E t \in Enqueuers : registration.via[t] = "locked"
    /\ Len(registration.put) = MaxEnqueuers + 1

(***************************************************************************)
(* Specification: the client's table entry of one endpoint under births    *)
(* and deaths in any order.                                                *)
(***************************************************************************)

InitEndpointState == InitClientEndpoint /\ InitClient /\ InitServerEngine(<<>>)
        /\ InitOrganizer /\ InitRegistration /\ InitDispatch /\ InitClientInterface

NextEndpointState ==
    \/ on_birth
    \/ on_death

SpecEndpointState == InitEndpointState /\ [][NextEndpointState]_vars

C31_OrganizerIffUp ==
    iface.device_organizer <=> (devices.known /\ devices.is_up)

\* C31 witness: a device that was up was registered again: the bdSeq of
\* the record is 1, the record is up and the organizer is there.
C31_WitnessUpWithOrganizer ==
    /\ step.type = "RegisterDevice"
    /\ ~step.raised
    /\ step.devices_before.known
    /\ step.devices_before.is_up
    /\ devices.is_up
    /\ devices.bdSeq = 1
    /\ iface.device_organizer


\* C32: every item put on the inbound queue is processed at most once and
\* never before its scheduled execution time: the item a step of
\* process_events handled was handled by no earlier step, and its time is
\* not after the time of the clock at that step.
C32_OnceAndNotEarly ==
    step.item # NoItem =>
        /\ step.item.id \notin step.earlier
        /\ step.item.time <= now

\* C32 witness: process_events handled an item scheduled with a delay, at
\* the time it was scheduled for, after it had handled another item.
C32_WitnessDelayedItemAtItsTime ==
    /\ step.type = "Schedule"
    /\ step.earlier # {}
    /\ step.item.time = now
    /\ step.item.time > StartTime


(* The claims about the routing of messages to the callbacks of the user *)

InitRouting == InitClientEndpoint /\ InitClient /\ InitServerEngine(<<>>)
        /\ InitOrganizer /\ InitRegistration /\ InitDispatch /\ InitClientInterface

\* The events the user subscribes to in one call of monitor.
RoutingEventSets == {{"ONLINE"}, {"OFFLINE", "METRIC_UPDATE"}}

\* Messages of the node and of its device: births that declare x with an
\* alias, data messages that send x by name or by alias, and deaths.
RoutingPayloads == {ClientPayload(FALSE, TimeStampBase, NoneVal)}

RoutingBirthLists == {<<TahuMetric("x", KnownAlias, 0, FALSE)>>}

RoutingDataLists ==
    {<<TahuMetric("x", NoneVal, 1, FALSE)>>, <<TahuMetric(NoMetricName, KnownAlias, 1, FALSE)>>}

NextRouting ==
    \/ monitor(RoutingEventSets)
    \/ on_message(Topics, RoutingPayloads, RoutingBirthLists, RoutingDataLists)

SpecRouting == InitRouting /\ [][NextRouting]_vars

\* C33: on each inbound message that is handled, the table is updated
\* before any callback runs (the metrics handed to the callbacks are the
\* entries of the table after the update, for the names of the message), and
\* a callback is called for exactly the subscriptions made for the event of
\* the message, with a callback, whose pattern matches the endpoint of the
\* message, in the order of their subscription.
C33_TableThenMatchingCallbacks ==
    delivery.outcome = "routed" =>
        LET name == delivery.topic.endpoint_name
            subs == user_subscriptions[delivery.event]
            called == delivery.called
        IN /\ delivery.event = EventOf(message_type(delivery.topic))
           /\ \A i \in 1 .. delivery.subscribed :
                (\E k \in 1 .. Len(called) : called[k] = i)
                    <=> (/\ subs[i].event = delivery.event
                         /\ subs[i].callback # "None"
                         /\ match(subs[i].endpoint_pattern, name))
           /\ \A k \in 1 .. Len(called) :
                /\ called[k] \in 1 .. delivery.subscribed
                /\ \A j \in 1 .. k - 1 : called[j] < called[k]
           /\ \A e \in Events : \A i \in 1 .. Len(user_subscriptions[e]) :
                user_subscriptions[e][i].event = e
           /\ name \in endpoints
           /\ \A n \in DOMAIN delivery.passed :
                delivery.passed[n] = endpoint_metrics[name].metrics[n]
           /\ delivery.topic.base # "DEATH" =>
                DOMAIN delivery.passed =
                    {get_metric_name(endpoint_metrics[name].alias_map, delivery.metrics[i]) :
                         i \in 1 .. Len(delivery.metrics)}

\* C33 witness: a data message of the device that sends x by alias called
\* one of two subscriptions for METRIC_UPDATE, the one whose pattern matches
\* devices, and handed it the updated, fresh x.
C33_WitnessOneOfTwoCalledWithUpdate ==
    /\ delivery.outcome = "routed"
    /\ delivery.topic = Topic("DATA", DeviceD1)
    /\ delivery.metrics = <<TahuMetric(NoMetricName, KnownAlias, 1, FALSE)>>
    /\ delivery.subscribed = 2
    /\ Len(delivery.called) = 1
    /\ Len(user_subscriptions["ONLINE"]) = 0
    /\ user_subscriptions["METRIC_UPDATE"][1].callback = "callback"
    /\ user_subscriptions["METRIC_UPDATE"][2].callback = "callback"
    /\ "x" \in DOMAIN delivery.passed
    /\ delivery.passed["x"] = ClientEndpointMetric(1, TRUE)
    /\ delivery.endpoint_metrics_before[DeviceD1].metrics["x"] = ClientEndpointMetric(0, FALSE)


(* The claim about the lock of the client's table *)

NextDispatch ==
    \/ route_enter
    \/ route_copy
    \/ route_call_if
    \/ callback_enter
    \/ callback_exit
    \/ route_return
    \/ user_monitor
    \/ user_enter
    \/ user_exit

InitDispatching == InitClientEndpoint /\ InitClient /\ InitServerEngine(<<>>)
        /\ InitOrganizer /\ InitRegistration /\ InitDispatch /\ InitClientInterface

SpecDispatch == InitDispatching /\ [][NextDispatch]_vars

\* C34: the callbacks are invoked while the transport thread does not hold
\* the lock of the table, on a copy of the subscription list taken under the
\* lock: the callbacks called for the current message are those of the copy,
\* whatever a callback or the user thread subscribes meanwhile, and a thread
\* that waits for the lock waits for a thread that is about to release it.
C34_CallbacksOutsideLockOnSnapshot ==
    /\ ~dispatch.held_at_call
    /\ dispatch.pc \in {"callback", "loop"} => dispatch.owner # "transport"
    /\ dispatch.pc = "copy" => dispatch.owner = "transport"
    /\ dispatch.pc \in {"loop", "callback", "callback_locked"} =>
        /\ Len(dispatch.snapshot) <= Len(dispatch.subscriptions)
        /\ \A i \in 1 .. Len(dispatch.snapshot) :
            /\ dispatch.snapshot[i] = dispatch.subscriptions[i]
            /\ (\E k \in 1 .. Len(dispatch.called) : dispatch.called[k] = i)
                   <=> (/\ dispatch.snapshot[i] # "None"
                        /\ \/ i < dispatch.pos
                           \/ i = dispatch.pos /\ dispatch.pc # "loop")
        /\ \A k \in 1 .. Len(dispatch.called) :
             dispatch.called[k] \in 1 .. Len(dispatch.snapshot)
    /\ (dispatch.pc = "callback" /\ ~lock_is_free_for(dispatch, "transport"))
            => dispatch.user_pc = "locked"
    /\ (dispatch.user_pc = "waiting" /\ ~lock_is_free_for(dispatch, "user"))
            => dispatch.pc \in {"copy", "callback_locked"}

\* C34 witness: a callback has called monitor while the message was routed
\* and has come back: the subscription it made is in the list, behind the
\* copy, and its callback is not among those called for this message.
C34_WitnessSubscribedInsideCallback ==
    /\ dispatch.pc = "loop"
    /\ dispatch.pos > Len(dispatch.snapshot)
    /\ Len(dispatch.snapshot) = 2
    /\ dispatch.snapshot[1] = "monitor"
    /\ dispatch.snapshot[2] = "query"
    /\ dispatch.called = <<1, 2>>
    /\ Len(dispatch.subscriptions) = 3
    /\ dispatch.subscriptions[3] = "returns"
    /\ dispatch.user_pc = "idle"


(* The claims about commands for devices and the published stream *)

\* C35: a DCMD handled for a device whose record is down changes no metric
\* and runs no command, on the device or on the node, and raises nothing.
C35_DownDeviceCommandIgnored ==
    (/\ step.type = "Schedule"
     /\ step.item.guarded
     /\ step.item.device # NoDevice
     /\ step.devices_before.known
     /\ ~step.devices_before.is_up)
        => /\ ~step.info.device.changed
           /\ ~step.info.device.dynamic
           /\ ~step.info.changed
           /\ ~step.info.dynamic
           /\ ~step.info.caught
           /\ ~step.info.body_raised

\* C35 witness: the DCMD that writes x was handled after the device had been
\* registered and unregistered.
C35_WitnessWriteToDownDevice ==
    /\ step.type = "Schedule"
    /\ step.item.guarded
    /\ step.item.device = TopicDevice
    /\ step.item.func = SetX
    /\ step.devices_before.known
    /\ ~step.devices_before.is_up
    /\ step.devices_before.dcmd_subscribed
    /\ ~step.raised


C37_DataCarriesAliases ==
    \A i \in 1 .. Len(step.published) :
        step.published[i].message_type \in {"NDATA", "DDATA"}
            => step.published[i].metrics \cap {"x", "y"} = {}

\* C37 witness: the NBIRTH published by connect lists the metrics of the
\* node by name.
C37_WitnessBirthCarriesNames ==
    /\ step.type = "connect"
    /\ Len(step.published) = 1
    /\ step.published[1].message_type = "NBIRTH"
    /\ "x" \in step.published[1].metrics


(* The claim about the command payloads of the client *)

InitClientCommands == InitClientEndpoint /\ InitClient /\ InitServerEngine(<<>>)
        /\ InitOrganizer /\ InitRegistration /\ InitDispatch /\ InitClientInterface

NextClientCommands ==
    \/ register_birth
    \/ new_cmd

SpecClientCommands == InitClientCommands /\ [][NextClientCommands]_vars

\* C38 as stated: the payload built for command c of endpoint E carries the
\* alias that the last registered birth of E gave to command/c and no name,
\* and carries the name command/c and no alias only when no birth of E is
\* registered.
C38_CommandCarriesBirthAlias ==
    LET call == client_iface.call
    IN (call.made /\ call.cmd = "do") =>
        IF call.entry.registered
        THEN /\ call.metric.name = NoMetricName
             /\ call.metric.alias = call.entry.aliases[make_command(call.cmd)]
        ELSE /\ call.metric.name = make_command(call.cmd)
             /\ call.metric.alias = NoneVal

\* C38 witness: a command payload built for an endpoint no birth of which
\* is registered carries the full name.
C38_WitnessFullNameWithoutBirth ==
    /\ client_iface.call.made
    /\ client_iface.call.cmd = "do"
    /\ ~client_iface.call.entry.registered
    /\ client_iface.call.metric.name = make_command("do")
    /\ client_iface.call.metric.alias = NoneVal


(* The claim about the registration of the command queue *)

\* C39: icpw_register_command_queue puts the buffered actions on the queue
\* in the order of the buffer while it holds the lock, and afterwards puts
\* the item of the declared timer on the queue, once: not before the buffer
\* is moved, and not again when the method is called again.
C39_FlushInOrderThenTimers ==
    LET reg == registration
        engine == reg.pc[EngineThread]
        FromBuffer(t) == reg.via[t] = "buffer"
        moved == SelectSeq(reg.put, FromBuffer)
        timers == Count(reg.put, TimerAction)
    IN /\ engine = "flush" =>
            /\ reg.lock = EngineThread
            /\ reg.has_buffer
            /\ moved = SubSeq(reg.buffer, 1, reg.flush - 1)
       /\ ~reg.command_queue => (moved = <<>> /\ reg.has_buffer)
       /\ (reg.command_queue /\ engine # "flush") =>
            /\ ~reg.has_buffer
            /\ moved = reg.flushed
            /\ \A t \in Enqueuers : FromBuffer(t) => Count(reg.flushed, t) = 1
       /\ timers = IF reg.command_queue /\ engine \notin {"flush", "timers"} THEN 1 ELSE 0
       /\ \A i, j \in DOMAIN reg.put :
            (reg.put[i] = TimerAction /\ FromBuffer(reg.put[j])) => j < i

\* C39 witness: two actions were buffered, the registration has moved them
\* and scheduled the timer, and a second call of the method has raised.
C39_WitnessTwoBufferedThenTimer ==
    /\ Len(registration.flushed) = 2
    /\ registration.pc[EngineThread] = "raised"
    /\ registration.calls = 2
    /\ Count(registration.put, TimerAction) = 1
    /\ \E t \in Enqueuers : registration.via[t] = "unlocked"


(* The claim about the initial metrics of an organizer *)

\* C40 as stated: set_initial_metrics is accepted only before the first
\* birth built from the organizer: a call made after get_all has returned
\* the metrics of a birth fails.
C40_InitialMetricsOnlyBeforeBirth ==
    (organizer_call.op = "set_initial_metrics" /\ organizer_call.emitted)
        => organizer_call.raised

\* C40 witness: a call of set_initial_metrics with a metric, made before any
\* birth was built, was accepted.
C40_WitnessAcceptedBeforeBirth ==
    /\ organizer_call.op = "set_initial_metrics"
    /\ ~organizer_call.emitted
    /\ ~organizer_call.raised
    /\ organizer.committed
    /\ DOMAIN organizer.metrics # {}

====
